---- MODULE Spec2Model ----
(***************************************************************************)
(* In-memory favourites store (internal/repository/memory/memory.go).      *)
(*                                                                         *)
(* MemoryRepository keeps two maps behind one sync.RWMutex:                *)
(*   assets     : asset ID -> *Asset                                       *)
(*   favourites : user ID -> favourite ID -> *Favourite                    *)
(* Several goroutines call its methods.  A method is modelled by the step  *)
(* that takes the lock (Lock or RLock), the steps of its body, and a last  *)
(* step that runs the deferred Unlock/RUnlock and returns.  The arguments  *)
(* of a call are drawn in the first step of the body: nothing else can see *)
(* them earlier.  Assets live in a heap of objects, because the maps hold  *)
(* pointers and GetAsset returns the stored pointer: what a caller reads   *)
(* through it afterwards is read without the lock.                         *)
(***************************************************************************)
EXTENDS Integers, Sequences, FiniteSets, TLC

\* ------------------------------------------------------------------ bounds
MaxWrites == 4       \* mutating calls that return nil in one behaviour
MaxLockWrites == 3   \* the same, where every method runs
MaxTime == 1         \* readings of time.Now() are 0..MaxTime
NumCreators == 3     \* goroutines of the concurrent-creation scenario

Procs == {"g1", "g2"}          \* goroutines calling the store, call after call
AssetIDs == {"a1", "a2"}       \* asset IDs a caller can present (uuid values)
UserIDs == {"u1", "u2"}        \* user IDs
FavIDs == {"f1", "f2"}         \* favourite IDs a caller can present
Addrs == 1..MaxWrites          \* addresses of the Asset objects
Times == 0..MaxTime

\* TestMemoryRepository_ConcurrentWrites: NumCreators goroutines, each named by
\* the ID of the one asset it creates, and the test's own goroutine
CreatorIDs == <<"a1", "a2", "a3", "a4", "a5">>
Creators == {CreatorIDs[i] : i \in 1..NumCreators}
Main == "main"

\* domain.AssetType values and descriptions the callers present
AssetInputs == {[Type |-> "chart", Description |-> "d1"],
                [Type |-> "insight", Description |-> "d2"]}
Descs == {"d1", "d2"}

\* Go's < on the strings above
StrRank == [audience |-> 1, chart |-> 2, d1 |-> 3, d2 |-> 4, insight |-> 5]
StrLess(a, b) == StrRank[a] < StrRank[b]

\* domain errors; ErrNil is Go's nil error
ErrNil == "nil"
ErrNotFound == "resource not found"
ErrAlreadyExists == "resource already exists"
ErrOrphan == "sanity check failed: orphan favourite found"

\* ----------------------------------------------------------------- helpers
\* Go map operations on a function whose DOMAIN is the set of keys.
EmptyMap == [k \in {} |-> 0]
MapPut(m, k, v) == [x \in (DOMAIN m) \cup {k} |-> IF x = k THEN v ELSE m[x]]
MapDelete(m, k) == [x \in (DOMAIN m) \ {k} |-> m[x]]
MapValues(m) == {m[k] : k \in DOMAIN m}

NilPtr == 0
NoObj == [ID |-> "none"]
NoEvent == [op |-> "none"]
NoLocal == [op |-> "none"]

VARIABLES
    assets,      \* r.assets: asset ID -> address of the Asset object
    heap,        \* the Asset objects: address -> fields, NoObj when unallocated
    favourites,  \* r.favourites: user ID -> favourite ID -> Favourite
    mu,          \* r.mu: [w: a writer holds it, r: number of read holders]
    clock,       \* the last reading of time.Now()
    pc,          \* where each goroutine is
    loc,         \* each goroutine's arguments and locals of the call it is in
    left,        \* mutating calls that may still return nil in this behaviour
    event,       \* the call that returned in the last step (NoEvent otherwise)
    committed,   \* the store as the last writer left it (history)
    appConfig    \* package config: the singleton pointer, nil until loaded

vars == <<assets, heap, favourites, mu, clock, pc, loc, left, event, committed,
         appConfig>>

\* The store a reader can see: the maps with the pointers followed.
StoreOf(as, hp, fs) == [assets |-> [a \in DOMAIN as |-> hp[as[a]]], favourites |-> fs]
Store == StoreOf(assets, heap, favourites)

\* sync.RWMutex
MuFree == [w |-> FALSE, r |-> 0]
\* variant: a writer that does not wait for the readers to leave
CanLockIgnoringReaders == mu.w = FALSE
CanLock == mu.w = FALSE /\ mu.r = 0
CanRLock == mu.w = FALSE
Lock == [mu EXCEPT !.w = TRUE]
Unlock == [mu EXCEPT !.w = FALSE]
RLock == [mu EXCEPT !.r = @ + 1]
RUnlock == [mu EXCEPT !.r = @ - 1]

\* time.Now(): a reading not before the last one
NowReadings == {t \in Times : t = clock \/ t = clock + 1}

\* event is history: a behaviour that starts with it Unobserved keeps no record
Unobserved == [op |-> "unobserved"]
Record(ev) == IF event = Unobserved THEN Unobserved ELSE ev

\* NewRepository
InitWith(procs) ==
    /\ assets = EmptyMap
    /\ heap = [x \in Addrs |-> NoObj]
    /\ favourites = EmptyMap
    /\ mu = MuFree
    /\ clock = 0
    /\ pc = [p \in procs |-> "idle"]
    /\ loc = [p \in procs |-> NoLocal]
    /\ committed = [assets |-> EmptyMap, favourites |-> EmptyMap]

Init == InitWith(Procs) /\ event = NoEvent /\ left = MaxWrites /\ appConfig = NilPtr
InitLock == InitWith(Procs) /\ event = Unobserved /\ left = MaxLockWrites /\ appConfig = NilPtr

\* r.mu.Lock() at the head of a mutating method
LockCall(p, stage) ==
    /\ pc[p] = "idle"
    /\ left > 0
    /\ CanLock
    /\ mu' = Lock
    /\ pc' = [pc EXCEPT ![p] = stage]
    /\ event' = Record(NoEvent)
    /\ committed' = Store
    /\ UNCHANGED <<assets, heap, favourites, clock, loc, left, appConfig>>

\* r.mu.RLock() at the head of a read method
RLockCall(p, stage) ==
    /\ pc[p] = "idle"
    /\ CanRLock
    /\ mu' = RLock
    /\ pc' = [pc EXCEPT ![p] = stage]
    /\ event' = Record(NoEvent)
    /\ UNCHANGED <<assets, heap, favourites, clock, loc, left, appConfig, committed>>

\* where a goroutine is after its call: those of Procs go on to another call,
\* a goroutine of the concurrent-creation test has made its one call
Rest(p) == IF p \in Procs THEN "idle" ELSE "done"

\* variant: the lock is released on the successful return only
ReturnWLockedOnError(p, ev, as, hp, fs) ==
    /\ assets' = as
    /\ heap' = hp
    /\ favourites' = fs
    /\ mu' = IF ev.err = ErrNil THEN Unlock ELSE mu
    /\ pc' = [pc EXCEPT ![p] = Rest(p)]
    /\ loc' = [loc EXCEPT ![p] = NoLocal]
    /\ event' = Record(ev)
    /\ committed' = StoreOf(as, hp, fs)
    /\ left' = IF ev.err = ErrNil THEN left - 1 ELSE left
    /\ UNCHANGED appConfig

\* A goroutine returns from a write method: deferred Unlock, result to the caller.
\* as, hp, fs are the maps and the heap as the method leaves them.
ReturnW(p, ev, as, hp, fs) ==
    /\ assets' = as
    /\ heap' = hp
    /\ favourites' = fs
    /\ mu' = Unlock
    /\ pc' = [pc EXCEPT ![p] = Rest(p)]
    /\ loc' = [loc EXCEPT ![p] = NoLocal]
    /\ event' = Record(ev)
    /\ committed' = StoreOf(as, hp, fs)
    /\ left' = IF ev.err = ErrNil THEN left - 1 ELSE left
    /\ UNCHANGED appConfig

\* variant: GetFavourite attaches the asset to the stored favourite itself
ReturnRAttaching(p, ev) ==
    /\ mu' = RUnlock
    /\ pc' = [pc EXCEPT ![p] = Rest(p)]
    /\ loc' = [loc EXCEPT ![p] = NoLocal]
    /\ event' = Record(ev)
    /\ favourites' = IF ev.op = "GetFavourite" /\ ev.err = ErrNil
                     THEN [favourites EXCEPT ![ev.userID][ev.favouriteID] = ev.val]
                     ELSE favourites
    /\ UNCHANGED <<assets, heap, clock, left, appConfig, committed>>

\* A goroutine returns from a read method: deferred RUnlock, result to the caller.
ReturnR(p, ev) ==
    /\ mu' = RUnlock
    /\ pc' = [pc EXCEPT ![p] = Rest(p)]
    /\ loc' = [loc EXCEPT ![p] = NoLocal]
    /\ event' = Record(ev)
    /\ UNCHANGED <<assets, heap, favourites, clock, left, appConfig, committed>>

\* ------------------------------------------------------------- CreateAsset
\* domain.NewAsset: the caller builds the asset, CreatedAt = UpdatedAt = now
NewAsset(id, type, desc, now) ==
    [ID |-> id, Type |-> type, Description |-> desc, Data |-> "data",
     CreatedAt |-> now, UpdatedAt |-> now]

CreateAssetLock(p) == LockCall(p, "create")

\* the address of the caller's Asset object
\* variant: every caller builds its asset in the same object
NextAddrShared == CHOOSE x \in Addrs : \A y \in Addrs : x <= y
FreeAddrs == {x \in Addrs : heap[x] = NoObj}
NextAddr == CHOOSE x \in FreeAddrs : \A y \in FreeAddrs : x <= y

\* variant: no existence check
CreateAssetNeverExists(asset) == FALSE

\* `_, exists := r.assets[asset.ID]`
CreateAssetExists(asset) == asset.ID \in DOMAIN assets

\* variant: the catalog keyed by asset type
CreateAssetKeyByType(asset) == asset.Type

\* the key of `r.assets[asset.ID] = asset`
CreateAssetKey(asset) == asset.ID

\* body of CreateAsset, for the asset the caller passes
CreateAssetOf(p, asset) ==
    /\ pc[p] = "create"
    /\ LET ev(e) == [op |-> "CreateAsset", asset |-> asset, err |-> e,
                     pre |-> committed]
       IN IF CreateAssetExists(asset)
          THEN ReturnW(p, ev(ErrAlreadyExists), assets, heap, favourites)
          ELSE ReturnW(p, ev(ErrNil),
                       MapPut(assets, CreateAssetKey(asset), NextAddr),
                       [heap EXCEPT ![NextAddr] = asset], favourites)
    /\ clock' = asset.CreatedAt

\* CreateAsset called with an asset NewAsset has just built
CreateAsset(p) ==
    \E id \in AssetIDs, in \in AssetInputs, now \in NowReadings :
        CreateAssetOf(p, NewAsset(id, in.Type, in.Description, now))

\* ------------------------------------------------------------------ GetAsset
\* variant: a lookup that still finds the assets that were deleted
GetAssetEverCreated(assetID) ==
    IF \E x \in Addrs : heap[x].ID = assetID
    THEN [val |-> CHOOSE x \in Addrs : heap[x].ID = assetID, err |-> ErrNil]
    ELSE [val |-> NilPtr, err |-> ErrNotFound]

\* body of GetAsset: the stored pointer, or ErrNotFound
GetAssetResult(assetID) ==
    IF assetID \in DOMAIN assets
    THEN [val |-> assets[assetID], err |-> ErrNil]
    ELSE [val |-> NilPtr, err |-> ErrNotFound]

GetAssetRLock(p) == RLockCall(p, "getasset")

\* body of GetAsset; this caller looks at the error alone
GetAsset(p) ==
    /\ pc[p] = "getasset"
    /\ \E id \in AssetIDs :
        LET res == GetAssetResult(id) IN
        ReturnR(p, [op |-> "GetAsset", assetID |-> id, val |-> res.val,
                    err |-> res.err])

\* body of GetAsset; on success this caller goes on to read the Asset through
\* the pointer it got (respondJSON encodes it field by field).  whole collects
\* the (Description, UpdatedAt) the object has between writes, from here on.
GetAssetToRead(p) ==
    /\ pc[p] = "getasset"
    /\ \E id \in AssetIDs :
        LET res == GetAssetResult(id)
            ev == [op |-> "GetAsset", assetID |-> id, val |-> res.val, err |-> res.err]
        IN IF res.err = ErrNil
           THEN /\ mu' = RUnlock
                /\ pc' = [pc EXCEPT ![p] = "read_description"]
                /\ loc' = [loc EXCEPT ![p] = [op |-> "GetAsset", ptr |-> res.val,
                               whole |-> {<<heap[res.val].Description,
                                            heap[res.val].UpdatedAt>>}]]
                /\ event' = Record(ev)
                /\ UNCHANGED <<assets, heap, favourites, clock, left, appConfig, committed>>
           ELSE ReturnR(p, ev)

\* the caller reads asset.Description through the pointer
ReadDescription(p) ==
    /\ pc[p] = "read_description"
    /\ pc' = [pc EXCEPT ![p] = "read_updated_at"]
    /\ loc' = [loc EXCEPT ![p] = [op |-> "GetAsset", ptr |-> loc[p].ptr,
                                   whole |-> loc[p].whole,
                                   Description |-> heap[loc[p].ptr].Description]]
    /\ event' = Record(NoEvent)
    /\ UNCHANGED <<assets, heap, favourites, mu, clock, left, appConfig, committed>>

\* the caller reads asset.UpdatedAt through the pointer
ReadUpdatedAt(p) ==
    /\ pc[p] = "read_updated_at"
    /\ pc' = [pc EXCEPT ![p] = "idle"]
    /\ loc' = [loc EXCEPT ![p] = NoLocal]
    /\ event' = Record([op |-> "ReadAsset", ptr |-> loc[p].ptr,
                         whole |-> loc[p].whole,
                         Description |-> loc[p].Description,
                         UpdatedAt |-> heap[loc[p].ptr].UpdatedAt])
    /\ UNCHANGED <<assets, heap, favourites, mu, clock, left, appConfig, committed>>

\* -------------------------------------------------- UpdateAssetDescription
UpdateAssetDescriptionLock(p) == LockCall(p, "update")

\* variant: an update of an absent ID stores a new asset
UpdateAssetDescriptionUpsert(p) ==
    /\ pc[p] = "update"
    /\ \E id \in AssetIDs, description \in Descs :
        IF id \notin DOMAIN assets
        THEN IF FreeAddrs = {}
             THEN ReturnW(p, [op |-> "UpdateAssetDescription", assetID |-> id,
                              description |-> description, err |-> ErrNotFound,
                              pre |-> committed], assets, heap, favourites)
             ELSE ReturnW(p, [op |-> "UpdateAssetDescription", assetID |-> id,
                              description |-> description, err |-> ErrNil,
                              pre |-> committed],
                          MapPut(assets, id, NextAddr),
                          [heap EXCEPT ![NextAddr] = NewAsset(id, "chart", description, clock)],
                          favourites)
        ELSE /\ heap' = [heap EXCEPT ![assets[id]].Description = description]
             /\ pc' = [pc EXCEPT ![p] = "update_at"]
             /\ loc' = [loc EXCEPT ![p] = [op |-> "UpdateAssetDescription",
                            assetID |-> id, description |-> description,
                            asset |-> assets[id]]]
             /\ event' = Record(NoEvent)
             /\ UNCHANGED <<assets, favourites, mu, left, appConfig, committed>>
    /\ UNCHANGED clock

\* lookup and `asset.Description = description`
UpdateAssetDescription(p) ==
    /\ pc[p] = "update"
    /\ \E id \in AssetIDs, description \in Descs :
        IF id \notin DOMAIN assets
        THEN ReturnW(p, [op |-> "UpdateAssetDescription", assetID |-> id,
                         description |-> description, err |-> ErrNotFound,
                         pre |-> committed], assets, heap, favourites)
        ELSE /\ heap' = [heap EXCEPT ![assets[id]].Description = description]
             /\ pc' = [pc EXCEPT ![p] = "update_at"]
             /\ loc' = [loc EXCEPT ![p] = [op |-> "UpdateAssetDescription",
                            assetID |-> id, description |-> description,
                            asset |-> assets[id]]]
             /\ event' = Record(NoEvent)
             /\ UNCHANGED <<assets, favourites, mu, left, appConfig, committed>>
    /\ UNCHANGED clock

\* a reader that holds a pointer to the object notes the state the write leaves
NoteWhole(ls, ptr, hp) ==
    [q \in DOMAIN ls |->
        IF ls[q].op = "GetAsset" /\ ls[q].ptr = ptr
        THEN [ls[q] EXCEPT !.whole = @ \cup {<<hp[ptr].Description, hp[ptr].UpdatedAt>>}]
        ELSE ls[q]]

\* `asset.UpdatedAt = time.Now()` and return
UpdateAssetUpdatedAt(p) ==
    /\ pc[p] = "update_at"
    /\ \E now \in NowReadings :
        LET hp == [heap EXCEPT ![loc[p].asset].UpdatedAt = now] IN
        /\ clock' = now
        /\ assets' = assets
        /\ heap' = hp
        /\ favourites' = favourites
        /\ mu' = Unlock
        /\ pc' = [pc EXCEPT ![p] = "idle"]
        /\ loc' = NoteWhole([loc EXCEPT ![p] = NoLocal], loc[p].asset, hp)
        /\ event' = Record([op |-> "UpdateAssetDescription",
                             assetID |-> loc[p].assetID,
                             description |-> loc[p].description, err |-> ErrNil,
                             pre |-> committed])
        /\ committed' = StoreOf(assets, hp, favourites)
        /\ left' = left - 1
        /\ UNCHANGED appConfig

\* -------------------------------------------------------------- DeleteAsset
\* variant: DeleteAsset under the read lock
DeleteAssetRLock(p) == RLockCall(p, "delete")
DeleteAssetLock(p) == LockCall(p, "delete")

\* lookup and `delete(r.assets, assetID)`
DeleteAsset(p) ==
    /\ pc[p] = "delete"
    /\ \E id \in AssetIDs :
        IF id \notin DOMAIN assets
        THEN ReturnW(p, [op |-> "DeleteAsset", assetID |-> id, err |-> ErrNotFound,
                         pre |-> committed], assets, heap, favourites)
        ELSE /\ assets' = MapDelete(assets, id)
             /\ pc' = [pc EXCEPT ![p] = "cascade"]
             /\ loc' = [loc EXCEPT ![p] = [op |-> "DeleteAsset", assetID |-> id]]
             /\ event' = Record(NoEvent)
             /\ UNCHANGED <<heap, favourites, mu, left, appConfig, committed>>
    /\ UNCHANGED clock

\* variant: the loop stops after the first user that had assetID
CascadeOneUser(fs, assetID) ==
    LET hit == {u \in DOMAIN fs : \E f \in DOMAIN fs[u] : fs[u][f].AssetID = assetID}
        first == CHOOSE u \in hit : TRUE
    IN [u \in DOMAIN fs |->
           IF hit # {} /\ u = first
           THEN [f \in {g \in DOMAIN fs[u] : fs[u][g].AssetID # assetID} |-> fs[u][f]]
           ELSE fs[u]]

\* variant: the test of the loop is inverted, the favourites of the other
\* assets are deleted
CascadeOthers(fs, assetID) ==
    [u \in DOMAIN fs |->
        [f \in {g \in DOMAIN fs[u] : fs[u][g].AssetID = assetID} |-> fs[u][f]]]

\* the loop over all users' favourites: those of assetID are deleted
CascadeFavourites(fs, assetID) ==
    [u \in DOMAIN fs |->
        [f \in {g \in DOMAIN fs[u] : fs[u][g].AssetID # assetID} |-> fs[u][f]]]

\* "Remove from all user favourites" and return
DeleteAssetCascade(p) ==
    /\ pc[p] = "cascade"
    /\ ReturnW(p, [op |-> "DeleteAsset", assetID |-> loc[p].assetID, err |-> ErrNil,
                   pre |-> committed],
               assets, heap, CascadeFavourites(favourites, loc[p].assetID))
    /\ UNCHANGED clock

\* ------------------------------------------------------------- AddFavourite
\* domain.NewFavourite
NewFavourite(id, userID, assetID, now) ==
    [ID |-> id, UserID |-> userID, AssetID |-> assetID, Asset |-> NilPtr,
     CreatedAt |-> now]

AddFavouriteLock(p) == LockCall(p, "addfav")

\* variant: no check that the asset exists
AddFavouriteAssetUnchecked(favourite) == TRUE

\* `_, exists := r.assets[favourite.AssetID]`
AddFavouriteAssetExists(favourite) == favourite.AssetID \in DOMAIN assets

\* variant: the scan compares favourite IDs
AddFavouriteAlreadyByID(userFavs, favourite) == favourite.ID \in DOMAIN userFavs

\* variant: the scan runs over the favourites of every user
AddFavouriteAlreadyAnyUser(userFavs, favourite) ==
    \E u \in DOMAIN favourites : \E f \in DOMAIN favourites[u] :
        favourites[u][f].AssetID = favourite.AssetID

\* "Check if already favourited", over the user's own favourites
AddFavouriteAlready(userFavs, favourite) ==
    \E f \in DOMAIN userFavs : userFavs[f].AssetID = favourite.AssetID

\* body of AddFavourite, for the favourite the caller passes
AddFavouriteOf(p, favourite) ==
    /\ pc[p] = "addfav"
    /\ LET ev(e) == [op |-> "AddFavourite", favourite |-> favourite, err |-> e,
                     pre |-> committed]
           fs == IF favourite.UserID \in DOMAIN favourites
                 THEN favourites
                 ELSE MapPut(favourites, favourite.UserID, EmptyMap)
       IN IF ~AddFavouriteAssetExists(favourite)
          THEN ReturnW(p, ev(ErrNotFound), assets, heap, favourites)
          ELSE IF AddFavouriteAlready(fs[favourite.UserID], favourite)
          THEN ReturnW(p, ev(ErrAlreadyExists), assets, heap, fs)
          ELSE ReturnW(p, ev(ErrNil), assets, heap,
                       MapPut(fs, favourite.UserID,
                              MapPut(fs[favourite.UserID], favourite.ID, favourite)))
    /\ clock' = favourite.CreatedAt

\* AddFavourite called with a favourite NewFavourite has just built
AddFavourite(p) ==
    \E id \in FavIDs, u \in UserIDs, a \in AssetIDs, now \in NowReadings :
        AddFavouriteOf(p, NewFavourite(id, u, a, now))

\* ---------------------------------------------------------- RemoveFavourite
RemoveFavouriteLock(p) == LockCall(p, "remfav")

\* variant: the favourite is deleted from a copy of the user's map
RemoveFavouriteKept(userFavs, favouriteID) == userFavs

\* `delete(userFavs, favouriteID)`
RemoveFavouriteFrom(userFavs, favouriteID) == MapDelete(userFavs, favouriteID)

RemoveFavourite(p) ==
    /\ pc[p] = "remfav"
    /\ \E u \in UserIDs, id \in FavIDs :
        LET ev(e) == [op |-> "RemoveFavourite", userID |-> u, favouriteID |-> id,
                      err |-> e, pre |-> committed]
        IN IF u \notin DOMAIN favourites
           THEN ReturnW(p, ev(ErrNotFound), assets, heap, favourites)
           ELSE IF id \notin DOMAIN favourites[u]
           THEN ReturnW(p, ev(ErrNotFound), assets, heap, favourites)
           ELSE ReturnW(p, ev(ErrNil), assets, heap,
                        MapPut(favourites, u, RemoveFavouriteFrom(favourites[u], id)))
    /\ UNCHANGED clock

\* -------------------------------------------------------------- IsFavourite
\* variant: the scan runs over the favourites of every user
IsFavouriteAnyUser(userID, assetID) ==
    [val |-> \E u \in DOMAIN favourites : \E f \in DOMAIN favourites[u] :
                 favourites[u][f].AssetID = assetID,
     err |-> ErrNil]

IsFavouriteResult(userID, assetID) ==
    IF userID \notin DOMAIN favourites
    THEN [val |-> FALSE, err |-> ErrNil]
    ELSE [val |-> \E f \in DOMAIN favourites[userID] :
                      favourites[userID][f].AssetID = assetID,
          err |-> ErrNil]

IsFavouriteRLock(p) == RLockCall(p, "isfav")

IsFavourite(p) ==
    /\ pc[p] = "isfav"
    /\ \E u \in UserIDs, a \in AssetIDs :
        LET res == IsFavouriteResult(u, a) IN
        ReturnR(p, [op |-> "IsFavourite", userID |-> u, assetID |-> a,
                    val |-> res.val, err |-> res.err])

\* ------------------------------------------------------------- GetFavourite
\* variant: the favourite is returned as stored, no asset attached
AttachNothing(fav) == fav

\* variant: the asset attached is looked up under another key
AttachAnyAsset(fav) ==
    IF fav.AssetID \in DOMAIN assets
    THEN [fav EXCEPT !.Asset = CHOOSE x \in MapValues(assets) :
                                  \A y \in MapValues(assets) : x <= y]
    ELSE fav

\* "Attach asset data": a copy with the asset's pointer, or the favourite as stored
AttachAsset(fav) ==
    IF fav.AssetID \in DOMAIN assets
    THEN [fav EXCEPT !.Asset = assets[fav.AssetID]]
    ELSE fav

\* variant: the favourite is looked up under every user
GetFavouriteResultAnyUser(userID, favouriteID) ==
    IF \E u \in DOMAIN favourites : favouriteID \in DOMAIN favourites[u]
    THEN [val |-> AttachAsset(favourites[CHOOSE u \in DOMAIN favourites :
                                  favouriteID \in DOMAIN favourites[u]][favouriteID]),
          err |-> ErrNil]
    ELSE [val |-> NilPtr, err |-> ErrNotFound]

GetFavouriteResult(userID, favouriteID) ==
    IF userID \notin DOMAIN favourites
    THEN [val |-> NilPtr, err |-> ErrNotFound]
    ELSE IF favouriteID \notin DOMAIN favourites[userID]
    THEN [val |-> NilPtr, err |-> ErrNotFound]
    ELSE [val |-> AttachAsset(favourites[userID][favouriteID]), err |-> ErrNil]

GetFavouriteRLock(p) == RLockCall(p, "getfav")

GetFavourite(p) ==
    /\ pc[p] = "getfav"
    /\ \E u \in UserIDs, id \in FavIDs :
        LET res == GetFavouriteResult(u, id) IN
        ReturnR(p, [op |-> "GetFavourite", userID |-> u, favouriteID |-> id,
                    val |-> res.val, err |-> res.err])

\* ----------------------------------------------------------- ListFavourites
\* domain.NewPageQuery
NewPageQuery(limit, offset, sortBy, order) ==
    [Limit |-> IF limit <= 0 \/ limit > 1000 THEN 100 ELSE limit,
     Offset |-> IF offset < 0 THEN 0 ELSE offset,
     SortBy |-> IF sortBy = "" THEN "created_at" ELSE sortBy,
     Order |-> IF order # "asc" /\ order # "desc" THEN "desc" ELSE order]

\* the queries the callers present
Queries == {NewPageQuery(10, 0, "", "")}

\* variant: the comparator reads every Order as ascending
FavLessAscending(query, x, y) ==
    CASE query.SortBy = "type" -> StrLess(heap[x.Asset].Type, heap[y.Asset].Type)
      [] query.SortBy = "description" ->
            StrLess(heap[x.Asset].Description, heap[y.Asset].Description)
      [] OTHER -> x.CreatedAt < y.CreatedAt

\* the comparator handed to sort.Slice; x and y carry their asset's pointer
FavLess(query, x, y) ==
    CASE query.SortBy = "type" ->
            IF query.Order = "asc"
            THEN StrLess(heap[x.Asset].Type, heap[y.Asset].Type)
            ELSE StrLess(heap[y.Asset].Type, heap[x.Asset].Type)
      [] query.SortBy = "description" ->
            IF query.Order = "asc"
            THEN StrLess(heap[x.Asset].Description, heap[y.Asset].Description)
            ELSE StrLess(heap[y.Asset].Description, heap[x.Asset].Description)
      [] OTHER ->
            IF query.Order = "asc"
            THEN x.CreatedAt < y.CreatedAt
            ELSE x.CreatedAt > y.CreatedAt

\* the orders of the elements of S
SeqsOf(S) ==
    {s \in [1..Cardinality(S) -> S] : \A i, j \in DOMAIN s : i # j => s[i] # s[j]}

\* sort.Slice is not stable and the map is walked in any order: every order
\* of favs in which no element is less than one before it
SortedFavs(favs, query) ==
    {s \in SeqsOf(favs) : \A i, j \in DOMAIN s : i < j => ~FavLess(query, s[j], s[i])}

\* variant: the page always starts at the head of the list
PaginateFromStart(sorted, query) ==
    SubSeq(sorted, 1, IF query.Limit > Len(sorted) THEN Len(sorted) ELSE query.Limit)

\* "Apply pagination"
Paginate(sorted, query) ==
    LET start == query.Offset
        end == query.Offset + query.Limit
    IN IF start > Len(sorted) THEN <<>>
       ELSE SubSeq(sorted, start + 1, IF end > Len(sorted) THEN Len(sorted) ELSE end)

\* variant: a favourite whose asset is missing fails the whole call
ListFavouritesResultsOrFail(userID, query) ==
    IF userID \notin DOMAIN favourites
    THEN {[page |-> <<>>, total |-> 0, err |-> ErrNil]}
    ELSE IF \E g \in MapValues(favourites[userID]) : g.AssetID \notin DOMAIN assets
    THEN {[page |-> <<>>, total |-> 0, err |-> ErrOrphan]}
    ELSE LET favs == {AttachAsset(fav) : fav \in MapValues(favourites[userID])}
         IN {[page |-> Paginate(sorted, query), total |-> Cardinality(favs),
              err |-> ErrNil] : sorted \in SortedFavs(favs, query)}

\* what ListFavourites can return
ListFavouritesResults(userID, query) ==
    IF userID \notin DOMAIN favourites
    THEN {[page |-> <<>>, total |-> 0, err |-> ErrNil]}
    ELSE LET favs == {AttachAsset(fav) : fav \in
                        {g \in MapValues(favourites[userID]) : g.AssetID \in DOMAIN assets}}
         IN {[page |-> Paginate(sorted, query), total |-> Cardinality(favs),
              err |-> ErrNil] : sorted \in SortedFavs(favs, query)}

ListFavouritesRLock(p) == RLockCall(p, "listfav")

\* body of ListFavourites, for a caller whose queries are among `queries`
ListFavouritesOf(p, queries) ==
    /\ pc[p] = "listfav"
    /\ \E u \in UserIDs, query \in queries :
        \E res \in ListFavouritesResults(u, query) :
            ReturnR(p, [op |-> "ListFavourites", userID |-> u, query |-> query,
                        page |-> res.page, total |-> res.total, err |-> res.err])

ListFavourites(p) == ListFavouritesOf(p, Queries)

\* ------------------------------------------------------------------- Sanity
\* variant: the walk stops after one user's favourites
OrphansOfOneUser ==
    {o \in [userID : {"u1"}, favID : FavIDs, assetID : AssetIDs] :
        /\ o.userID \in DOMAIN favourites
        /\ o.favID \in DOMAIN favourites[o.userID]
        /\ favourites[o.userID][o.favID].AssetID = o.assetID
        /\ o.assetID \notin DOMAIN assets}

\* the favourites whose asset is not in the catalog
Orphans ==
    {o \in [userID : UserIDs, favID : FavIDs, assetID : AssetIDs] :
        /\ o.userID \in DOMAIN favourites
        /\ o.favID \in DOMAIN favourites[o.userID]
        /\ favourites[o.userID][o.favID].AssetID = o.assetID
        /\ o.assetID \notin DOMAIN assets}

\* Sanity reports the first orphan the map iteration meets, or nil
SanityResults ==
    IF Orphans = {}
    THEN {[err |-> ErrNil]}
    ELSE {[err |-> ErrOrphan, orphan |-> o] : o \in Orphans}

SanityRLock(p) == RLockCall(p, "sanity")

Sanity(p) ==
    /\ pc[p] = "sanity"
    /\ \E res \in SanityResults : ReturnR(p, [op |-> "Sanity", res |-> res])

\* --------------------------------------------------------------------- Ping
\* Ping takes no lock and returns nil
Ping(p) ==
    /\ pc[p] = "idle"
    /\ event' = Record([op |-> "Ping", err |-> ErrNil])
    /\ UNCHANGED <<assets, heap, favourites, mu, clock, pc, loc, left, appConfig, committed>>

\* --------------------------------------------------------------- ListAssets
\* variant: every Order is read as ascending
AssetLessAscending(query, x, y) ==
    LET key(a) == CASE query.SortBy = "type" -> StrRank[heap[a].Type]
                    [] query.SortBy = "description" -> StrRank[heap[a].Description]
                    [] query.SortBy = "updated_at" -> heap[a].UpdatedAt
                    [] OTHER -> heap[a].CreatedAt
    IN key(x) < key(y)

\* The method is not among the sources at hand; it is taken from the design
\* (4.1): the catalog sorted by the query's key, windowed, and its full count.
AssetLess(query, x, y) ==
    LET key(a) == CASE query.SortBy = "type" -> StrRank[heap[a].Type]
                    [] query.SortBy = "description" -> StrRank[heap[a].Description]
                    [] query.SortBy = "updated_at" -> heap[a].UpdatedAt
                    [] OTHER -> heap[a].CreatedAt
    IN IF query.Order = "asc" THEN key(x) < key(y) ELSE key(y) < key(x)

\* variant: the count of the page is reported as the total
ListAssetsResultsPageTotal(query) ==
    LET all == MapValues(assets)
    IN {[page |-> Paginate(sorted, query), total |-> Len(Paginate(sorted, query)),
         err |-> ErrNil] :
          sorted \in {s \in SeqsOf(all) :
                         \A i, j \in DOMAIN s : i < j => ~AssetLess(query, s[j], s[i])}}

\* what ListAssets can return: ties on the key come in any order
ListAssetsResults(query) ==
    LET all == MapValues(assets)
    IN {[page |-> Paginate(sorted, query), total |-> Cardinality(all), err |-> ErrNil] :
          sorted \in {s \in SeqsOf(all) :
                         \A i, j \in DOMAIN s : i < j => ~AssetLess(query, s[j], s[i])}}

ListAssetsRLock(p) == RLockCall(p, "listassets")

\* body of ListAssets, for a caller whose queries are among `queries`
ListAssetsOf(p, queries) ==
    /\ pc[p] = "listassets"
    /\ \E query \in queries :
        \E res \in ListAssetsResults(query) :
            ReturnR(p, [op |-> "ListAssets", query |-> query, page |-> res.page,
                        total |-> res.total, err |-> res.err])

ListAssets(p) == ListAssetsOf(p, Queries)

\* ---------------------------------------------------------------------------
\* the mutating methods
WriteStep(p) ==
    \/ CreateAssetLock(p)
    \/ CreateAsset(p)
    \/ UpdateAssetDescriptionLock(p)
    \/ UpdateAssetDescription(p)
    \/ UpdateAssetUpdatedAt(p)
    \/ DeleteAssetLock(p)
    \/ DeleteAsset(p)
    \/ DeleteAssetCascade(p)
    \/ AddFavouriteLock(p)
    \/ AddFavourite(p)
    \/ RemoveFavouriteLock(p)
    \/ RemoveFavourite(p)

\* the read methods
ReadStep(p) ==
    \/ GetAssetRLock(p)
    \/ GetAsset(p)
    \/ IsFavouriteRLock(p)
    \/ IsFavourite(p)
    \/ GetFavouriteRLock(p)
    \/ GetFavourite(p)
    \/ ListFavouritesRLock(p)
    \/ ListFavourites(p)
    \/ SanityRLock(p)
    \/ Sanity(p)

Next == \E p \in Procs : WriteStep(p) \/ ReadStep(p)

\* every method, every call recorded
Spec == Init /\ [][Next]_vars

\* every method, no record of the calls, MaxLockWrites mutations
SpecLock == InitLock /\ [][Next]_vars

\* the mutating methods alone, every call recorded
NextWrites == \E p \in Procs : WriteStep(p)
SpecWrites == Init /\ [][NextWrites]_vars

\* the catalog alone: CreateAsset, DeleteAsset and GetAsset
NextAssets ==
    \E p \in Procs :
        \/ CreateAssetLock(p)
        \/ CreateAsset(p)
        \/ DeleteAssetLock(p)
        \/ DeleteAsset(p)
        \/ DeleteAssetCascade(p)
        \/ GetAssetRLock(p)
        \/ GetAsset(p)
SpecAssets == Init /\ [][NextAssets]_vars

\* callers that read an asset through the pointer GetAsset gave them, while
\* others create assets and update descriptions
NextRead ==
    \E p \in Procs :
        \/ CreateAssetLock(p)
        \/ CreateAsset(p)
        \/ UpdateAssetDescriptionLock(p)
        \/ UpdateAssetDescription(p)
        \/ UpdateAssetUpdatedAt(p)
        \/ GetAssetRLock(p)
        \/ GetAssetToRead(p)
        \/ ReadDescription(p)
        \/ ReadUpdatedAt(p)
SpecRead == Init /\ [][NextRead]_vars

\* TestMemoryRepository_ConcurrentWrites: every creator calls CreateAsset once
\* with its own ID; after wg.Wait() the test's goroutine reads the catalog
InitCreate ==
    InitWith(Creators \cup {Main}) /\ event = NoEvent /\ left = NumCreators /\ appConfig = NilPtr

\* CreateAsset called by creator c, with the asset it built
CreateAssetBy(c) ==
    \E in \in AssetInputs, now \in NowReadings :
        CreateAssetOf(c, NewAsset(c, in.Type, in.Description, now))

\* wg.Wait() has returned
AfterWait == \A c \in Creators : pc[c] = "done"

MainListAssets == AfterWait /\ ListAssetsRLock(Main)

NextCreate ==
    \/ \E c \in Creators : CreateAssetLock(c) \/ CreateAssetBy(c)
    \/ MainListAssets
    \/ ListAssets(Main)
SpecCreate == InitCreate /\ [][NextCreate]_vars

\* ---------------------------------------------------------------------------
\* Properties

\* the stored favourites, as (user, favourite ID) pairs
StoredFavs(fs) == UNION {{<<u, f>> : f \in DOMAIN fs[u]} : u \in DOMAIN fs}

\* the stored favourites of asset a
FavsOf(fs, a) == {x \in StoredFavs(fs) : fs[x[1]][x[2]].AssetID = a}

\* where a goroutine holds the write lock, and where it holds the read lock
WriteStages == {"create", "update", "update_at", "delete", "cascade", "addfav", "remfav"}
ReadStages == {"getasset", "isfav", "getfav", "listfav", "sanity"}
Writers == {p \in Procs : pc[p] \in WriteStages}
Readers == {p \in Procs : pc[p] \in ReadStages}

\* C1 (SpecWrites). Referential integrity: whenever no mutating call is inside
\* its critical section, every stored favourite's AssetID is the ID of an asset
\* in the catalog, so a Sanity call (which needs the lock free of writers) can
\* only return nil.
C1_ReferentialIntegrity ==
    mu.w = FALSE =>
        /\ \A x \in StoredFavs(favourites) :
               favourites[x[1]][x[2]].AssetID \in DOMAIN assets
        /\ SanityResults = {[err |-> ErrNil]}

\* C1 happens: AddFavourite was refused with ErrNotFound for an asset that
\* was deleted, after the cascade had emptied a user's favourites.
C1_Witness ==
    /\ event.op = "AddFavourite"
    /\ event.err = ErrNotFound
    /\ \E x \in Addrs : heap[x].ID = event.favourite.AssetID
    /\ \E u \in DOMAIN favourites : favourites[u] = EmptyMap

\* C2 (SpecWrites). Uniqueness: for every (UserID, AssetID) at most one stored
\* favourite has that UserID and that AssetID.
C2_UniqueFavourites ==
    \A u \in UserIDs, a \in AssetIDs :
        Cardinality({x \in StoredFavs(favourites) :
                        /\ favourites[x[1]][x[2]].UserID = u
                        /\ favourites[x[1]][x[2]].AssetID = a}) <= 1

\* C2 happens: AddFavourite refused a second favourite, under a new favourite
\* ID, of an asset the user already has.
C2_Witness ==
    /\ event.op = "AddFavourite"
    /\ event.err = ErrAlreadyExists
    /\ event.favourite.ID \notin DOMAIN favourites[event.favourite.UserID]

\* C3 (SpecWrites). Cascading delete: when DeleteAsset(A) has returned nil, A
\* is not in the catalog, GetAsset(A) fails with ErrNotFound, no stored
\* favourite has AssetID = A, IsFavourite(u, A) is false for every user and no
\* page ListFavourites can return holds a favourite of A.
C3_CascadingDelete ==
    (event.op = "DeleteAsset" /\ event.err = ErrNil) =>
        /\ event.assetID \notin DOMAIN assets
        /\ GetAssetResult(event.assetID).err = ErrNotFound
        /\ FavsOf(favourites, event.assetID) = {}
        /\ \A u \in UserIDs : IsFavouriteResult(u, event.assetID).val = FALSE
        /\ \A u \in UserIDs, query \in Queries :
               \A res \in ListFavouritesResults(u, query) :
                   \A i \in DOMAIN res.page : res.page[i].AssetID # event.assetID

\* C3 happens: the deleted asset was a favourite of two users.
C3_Witness ==
    /\ event.op = "DeleteAsset"
    /\ event.err = ErrNil
    /\ Cardinality({x[1] : x \in FavsOf(event.pre.favourites, event.assetID)}) = 2

\* C4 (SpecLock). Atomic cascade: a goroutine inside a read method never has
\* before it an asset that is absent while a favourite of it is stored, nor an
\* asset that is present while favourites of it are missing: it has the store
\* as the last complete write left it.
C4_AtomicCascade ==
    Readers # {} =>
        /\ \A a \in AssetIDs :
               IF a \in DOMAIN assets
               THEN FavsOf(favourites, a) = FavsOf(committed.favourites, a)
               ELSE FavsOf(favourites, a) = {}
        /\ Orphans = {}
        /\ Store = committed

\* C4 happens: a goroutine is inside a read method after a DeleteAsset that
\* removed an asset and the one favourite of it.
C4_Witness ==
    /\ Readers # {}
    /\ \E x \in Addrs : heap[x] # NoObj /\ heap[x].ID \notin DOMAIN assets
    /\ \E u \in DOMAIN favourites : favourites[u] = EmptyMap

\* C5 (SpecLock). Lock discipline: at most one goroutine is inside a mutating
\* method, none is inside a read method meanwhile, and the mutex says so;
\* several goroutines may be inside read methods together.
C5_LockDiscipline ==
    /\ Cardinality(Writers) <= 1
    /\ Writers # {} => Readers = {}
    /\ mu.w = (Writers # {})
    /\ mu.r = Cardinality(Readers)

\* C5 happens: two goroutines are inside read methods at the same time.
C5_Witness == Cardinality(Readers) = 2 /\ assets # EmptyMap

\* C6 (SpecRead). Read/write atomicity: what a caller of GetAsset reads of the
\* asset (Description, then UpdatedAt) is the pair the asset had after some
\* complete write since the call, or the pair the update now in progress is
\* about to leave.
C6_ReadIsWhole ==
    event.op = "ReadAsset" =>
        \/ <<event.Description, event.UpdatedAt>> \in event.whole
        \/ \E q \in Procs :
               /\ pc[q] = "update_at"
               /\ loc[q].asset = event.ptr
               /\ event.Description = heap[event.ptr].Description
               /\ event.UpdatedAt \in NowReadings

\* C7 (SpecCreate). Concurrent creation: every one of the NumCreators calls
\* returns nil, and once all have returned the catalog holds exactly the
\* creators' assets, each under its ID, and a ListAssets whose page covers
\* them returns NumCreators items, each ID once.
C7_ConcurrentCreation ==
    /\ event.op = "CreateAsset" => event.err = ErrNil
    /\ AfterWait =>
           /\ DOMAIN assets = Creators
           /\ \A c \in Creators : heap[assets[c]].ID = c
           /\ event.op = "ListAssets" =>
                  /\ event.err = ErrNil
                  /\ event.total = NumCreators
                  /\ Len(event.page) = NumCreators
                  /\ {heap[event.page[i]].ID : i \in DOMAIN event.page} = Creators

\* C7 happens: all creators have returned and ListAssets has returned a page.
C7_Witness ==
    /\ AfterWait
    /\ event.op = "ListAssets"
    /\ Len(event.page) = NumCreators

\* C8 (SpecWrites). Create/Get round trip: CreateAsset of an asset whose ID is
\* not in the catalog returns nil, and GetAsset of that ID right after returns
\* nil and the record the caller passed, field for field.
C8_CreateGetRoundTrip ==
    (event.op = "CreateAsset" /\ event.asset.ID \notin DOMAIN event.pre.assets) =>
        /\ event.err = ErrNil
        /\ GetAssetResult(event.asset.ID).err = ErrNil
        /\ heap[GetAssetResult(event.asset.ID).val] = event.asset

\* C8 happens: an asset was created under an ID that an earlier, deleted asset
\* had.
C8_Witness ==
    /\ event.op = "CreateAsset"
    /\ event.err = ErrNil
    /\ \E x \in Addrs : heap[x].ID = event.asset.ID /\ x # assets[event.asset.ID]

\* C9 (SpecWrites). Duplicate create: CreateAsset of an ID that is in the
\* catalog returns ErrAlreadyExists and leaves the whole store as it was; and
\* in every state each catalog entry holds a record of its own with the
\* entry's ID.
C9_DuplicateCreateRefused ==
    /\ (event.op = "CreateAsset" /\ event.asset.ID \in DOMAIN event.pre.assets) =>
           event.err = ErrAlreadyExists /\ Store = event.pre
    /\ \A a \in DOMAIN assets : heap[assets[a]].ID = a
    /\ \A a, b \in DOMAIN assets : assets[a] = assets[b] => a = b

\* C9 happens: a create was refused whose asset differs from the stored one.
C9_Witness ==
    /\ event.op = "CreateAsset"
    /\ event.err = ErrAlreadyExists
    /\ event.pre.assets[event.asset.ID] # event.asset

\* C10 (SpecAssets). GetAsset(id) returns ErrNotFound (and no record) exactly
\* when id is not in the catalog; otherwise it returns nil and the stored
\* record of that ID.
C10_GetAssetNotFoundExactly ==
    event.op = "GetAsset" =>
        IF event.assetID \in DOMAIN assets
        THEN /\ event.err = ErrNil
             /\ event.val = assets[event.assetID]
             /\ heap[event.val].ID = event.assetID
        ELSE /\ event.err = ErrNotFound
             /\ event.val = NilPtr

\* C10 happens: GetAsset failed for the ID of an asset created and since deleted.
C10_Witness ==
    /\ event.op = "GetAsset"
    /\ event.err = ErrNotFound
    /\ \E x \in Addrs : heap[x].ID = event.assetID

\* C11 (SpecWrites). Every UpdateAssetDescription(id, text) that returns nil
\* leaves the asset with Description = text and an UpdatedAt strictly greater
\* than the one it had before the call, and leaves its ID, Type, Data and
\* CreatedAt as they were.
C11_UpdateAdvancesUpdatedAt ==
    (event.op = "UpdateAssetDescription" /\ event.err = ErrNil) =>
        LET old == event.pre.assets[event.assetID]
            new == Store.assets[event.assetID]
        IN /\ new.Description = event.description
           /\ new.UpdatedAt > old.UpdatedAt
           /\ new.CreatedAt = old.CreatedAt
           /\ new.ID = old.ID
           /\ new.Type = old.Type
           /\ new.Data = old.Data

\* C12 (SpecWrites). AddFavourite(f) returns ErrNotFound when f.AssetID is not
\* in the catalog, ErrAlreadyExists when the asset is there and f.UserID has a
\* favourite of it, and nil otherwise; when it refuses, the assets and the
\* favourites are the same as before the call.
C12_AddFavouriteRefusal ==
    event.op = "AddFavourite" =>
        LET f == event.favourite
            had == /\ f.UserID \in DOMAIN event.pre.favourites
                   /\ \E g \in DOMAIN event.pre.favourites[f.UserID] :
                          event.pre.favourites[f.UserID][g].AssetID = f.AssetID
        IN /\ event.err = IF f.AssetID \notin DOMAIN event.pre.assets THEN ErrNotFound
                          ELSE IF had THEN ErrAlreadyExists
                          ELSE ErrNil
           /\ event.err # ErrNil => Store = event.pre

\* C12 happens: a user who has a favourite was refused, with ErrNotFound, a
\* favourite of an asset that never existed.
C12_Witness ==
    /\ event.op = "AddFavourite"
    /\ event.err = ErrNotFound
    /\ event.favourite.UserID \in DOMAIN favourites
    /\ favourites[event.favourite.UserID] # EmptyMap
    /\ \A x \in Addrs : heap[x].ID # event.favourite.AssetID

\* ---------------------------------------------------------------------------
\* the favourites of a catalog: assets are created and deleted, favourites
\* added and removed, and IsFavourite and GetFavourite look them up
InitFavs == InitWith(Procs) /\ event = NoEvent /\ left = MaxLockWrites /\ appConfig = NilPtr

NextFavs ==
    \E p \in Procs :
        \/ CreateAssetLock(p)
        \/ CreateAsset(p)
        \/ DeleteAssetLock(p)
        \/ DeleteAsset(p)
        \/ DeleteAssetCascade(p)
        \/ AddFavouriteLock(p)
        \/ AddFavourite(p)
        \/ RemoveFavouriteLock(p)
        \/ RemoveFavourite(p)
        \/ IsFavouriteRLock(p)
        \/ IsFavourite(p)
        \/ GetFavouriteRLock(p)
        \/ GetFavourite(p)
SpecFavs == InitFavs /\ [][NextFavs]_vars

\* C13 (SpecFavs). IsFavourite(u, a) returns no error, and true exactly when a
\* favourite of u with AssetID a is stored: it gives true right after an
\* AddFavourite of (u, a) that returned nil, and false right after the
\* favourite was removed by RemoveFavourite or by DeleteAsset(a).
C13_IsFavouriteExact ==
    /\ event.op = "IsFavourite" =>
           /\ event.err = ErrNil
           /\ event.val = (\E x \in FavsOf(favourites, event.assetID) : x[1] = event.userID)
    /\ (event.op = "AddFavourite" /\ event.err = ErrNil) =>
           IsFavouriteResult(event.favourite.UserID, event.favourite.AssetID)
               = [val |-> TRUE, err |-> ErrNil]
    /\ (event.op = "RemoveFavourite" /\ event.err = ErrNil) =>
           IsFavouriteResult(event.userID,
               event.pre.favourites[event.userID][event.favouriteID].AssetID)
               = [val |-> FALSE, err |-> ErrNil]
    /\ (event.op = "DeleteAsset" /\ event.err = ErrNil) =>
           \A u \in UserIDs :
               IsFavouriteResult(u, event.assetID) = [val |-> FALSE, err |-> ErrNil]

\* C13 happens: IsFavourite returned false for an asset of the catalog and a
\* user whose favourites were all removed.
C13_Witness ==
    /\ event.op = "IsFavourite"
    /\ event.val = FALSE
    /\ event.assetID \in DOMAIN assets
    /\ event.userID \in DOMAIN favourites
    /\ favourites[event.userID] = EmptyMap

\* C14 (SpecWrites). RemoveFavourite(u, fid) returns ErrNotFound and changes
\* nothing when u has no favourites or none with ID fid; otherwise it returns
\* nil, the store differs from the one before by that favourite alone, and
\* GetFavourite(u, fid) fails with ErrNotFound.
C14_RemoveFavourite ==
    event.op = "RemoveFavourite" =>
        LET u == event.userID
            fid == event.favouriteID
            was == event.pre.favourites
        IN IF u \in DOMAIN was /\ fid \in DOMAIN was[u]
           THEN /\ event.err = ErrNil
                /\ Store.assets = event.pre.assets
                /\ favourites =
                       [v \in DOMAIN was |->
                           IF v = u THEN [f \in DOMAIN was[u] \ {fid} |-> was[u][f]]
                           ELSE was[v]]
                /\ GetFavouriteResult(u, fid) = [val |-> NilPtr, err |-> ErrNotFound]
           ELSE /\ event.err = ErrNotFound
                /\ Store = event.pre

\* C14 happens: a favourite was removed while another favourite stays stored.
C14_Witness ==
    /\ event.op = "RemoveFavourite"
    /\ event.err = ErrNil
    /\ StoredFavs(favourites) # {}

\* C15 (SpecFavs). GetFavourite(u, fid) returns ErrNotFound and no record when
\* u has no favourite with ID fid; otherwise it returns nil and that favourite
\* with Asset set to the asset now stored under its AssetID; it never returns
\* nil with Asset empty.
C15_GetFavouriteOutcomes ==
    event.op = "GetFavourite" =>
        IF /\ event.userID \in DOMAIN favourites
           /\ event.favouriteID \in DOMAIN favourites[event.userID]
        THEN LET fav == favourites[event.userID][event.favouriteID]
             IN /\ event.err = ErrNil
                /\ fav.AssetID \in DOMAIN assets
                /\ event.val = [fav EXCEPT !.Asset = assets[fav.AssetID]]
                /\ event.val.Asset # NilPtr
                /\ heap[event.val.Asset].ID = fav.AssetID
        ELSE /\ event.err = ErrNotFound
             /\ event.val = NilPtr

\* C15 happens: GetFavourite returned a favourite with its asset attached while
\* the stored favourite has none.
C15_Witness ==
    /\ event.op = "GetFavourite"
    /\ event.err = ErrNil
    /\ event.val.Asset # NilPtr
    /\ favourites[event.userID][event.favouriteID].Asset = NilPtr

\* ---------------------------------------------------------------------------
\* Listing.  The store is drawn as CreateAsset and AddFavourite calls leave
\* it: up to MaxListed assets, created in the order of their addresses, and
\* favourites of one user on some of them; one goroutine then lists it with
\* every query of PageQueries.
MaxListed == 3

\* types and descriptions whose orders differ
ListInputs == {[Type |-> "chart", Description |-> "d2"],
               [Type |-> "insight", Description |-> "d1"]}
\* (CreatedAt, UpdatedAt) of a listed asset, CreatedAt of a listed favourite
ListStamps == {<<0, 0>>, <<0, 1>>, <<1, 1>>}
FavStamps == {0, 1}
FavIDPool == <<"f1", "f2", "f3", "f4", "f5">>
Lister == "g1"
ListUser == "u1"

\* the arguments callers hand to NewPageQuery
ListLimits == {1, 2, 10}
ListOffsets == {0, 1, 2, 4}
FavSortKeys == {"created_at", "type", "description"}
AssetSortKeys == {"created_at", "updated_at", "type", "description"}
Orders == {"asc", "desc"}
FavPageQueries ==
    {NewPageQuery(l, o, s, d) : l \in ListLimits, o \in ListOffsets,
                                s \in FavSortKeys, d \in Orders}
AssetPageQueries ==
    {NewPageQuery(l, o, s, d) : l \in ListLimits, o \in ListOffsets,
                                s \in AssetSortKeys, d \in Orders}

\* the store after CreateAsset of assets 1..n with inputs ins and stamps sts,
\* and AddFavourite by ListUser of the assets in favd at the times fsts
InitListed(n, ins, sts, favd, fsts) ==
    /\ assets = [a \in {CreatorIDs[i] : i \in 1..n} |->
                    CHOOSE i \in 1..n : CreatorIDs[i] = a]
    /\ heap = [x \in Addrs |->
                  IF x <= n
                  THEN [ID |-> CreatorIDs[x], Type |-> ins[x].Type,
                        Description |-> ins[x].Description, Data |-> "data",
                        CreatedAt |-> sts[x][1], UpdatedAt |-> sts[x][2]]
                  ELSE NoObj]
    /\ favourites =
           IF favd = {} THEN EmptyMap
           ELSE [u \in {ListUser} |->
                    [f \in {FavIDPool[i] : i \in favd} |->
                        LET i == CHOOSE j \in favd : FavIDPool[j] = f
                        IN NewFavourite(f, ListUser, CreatorIDs[i], fsts[i])]]
    /\ mu = MuFree
    /\ clock = MaxTime
    /\ pc = [p \in {Lister} |-> "idle"]
    /\ loc = [p \in {Lister} |-> NoLocal]
    /\ left = 0 /\ appConfig = NilPtr
    /\ event = NoEvent
    /\ committed = StoreOf(assets, heap, favourites)

\* stores with favourites: the assets' stamps play no part
InitListFavs ==
    \E n \in 0..MaxListed :
        \E ins \in [1..n -> ListInputs], favd \in SUBSET (1..n) :
            \E fsts \in [favd -> FavStamps] :
                InitListed(n, ins, [i \in 1..n |-> <<0, 0>>], favd, fsts)

ListFavouritesPaged(p) == ListFavouritesOf(p, FavPageQueries)

NextListFavs == ListFavouritesRLock(Lister) \/ ListFavouritesPaged(Lister)
SpecListFavs == InitListFavs /\ [][NextListFavs]_vars

\* ---------------------------------------------------------------------------
\* Listing properties.
Min(a, b) == IF a < b THEN a ELSE b
Max(a, b) == IF a > b THEN a ELSE b

\* the favourites stored for a user
UserFavs(u) == IF u \in DOMAIN favourites THEN MapValues(favourites[u]) ELSE {}

\* the rank of a stored favourite under a query's sort key
StoredFavKey(query, fav) ==
    CASE query.SortBy = "type" -> StrRank[heap[assets[fav.AssetID]].Type]
      [] query.SortBy = "description" -> StrRank[heap[assets[fav.AssetID]].Description]
      [] OTHER -> fav.CreatedAt

\* keys is in the order the query asks for
InOrder(query, keys) ==
    \A i, j \in DOMAIN keys :
        i < j => IF query.Order = "asc" THEN keys[i] <= keys[j] ELSE keys[i] >= keys[j]

\* C16: ListFavourites pagination.  For a user with n favourites, all on live
\* assets, and a normalized query with Limit L and Offset o, ListFavourites
\* returns no error, total = n and a page of min(L, max(0, n - o)) items, which
\* are the items o+1 .. o+L of a fully sorted list of the user's favourites;
\* a user with no favourites gets the empty page and total 0.
C16_ListFavouritesPagination ==
    (/\ event.op = "ListFavourites"
     /\ \A f \in UserFavs(event.userID) : f.AssetID \in DOMAIN assets)
    => LET q == event.query
           stored == UserFavs(event.userID)
           n == Cardinality(stored)
       IN /\ q.Limit >= 1 /\ q.Offset >= 0
          /\ event.err = ErrNil
          /\ event.total = n
          /\ Len(event.page) = Min(q.Limit, Max(0, n - q.Offset))
          /\ q.Offset >= n => event.page = <<>>
          /\ n = 0 => event.page = <<>> /\ event.total = 0
          /\ \E s \in SeqsOf(stored) :
                /\ InOrder(q, [i \in DOMAIN s |-> StoredFavKey(q, s[i])])
                /\ \A i \in DOMAIN event.page :
                      event.page[i] =
                          [s[q.Offset + i] EXCEPT !.Asset = assets[s[q.Offset + i].AssetID]]

\* a second page was cut out of three favourites
C16_Witness ==
    /\ event.op = "ListFavourites"
    /\ Cardinality(UserFavs(event.userID)) = 3
    /\ event.query.Offset = 1
    /\ event.query.Limit = 2
    /\ Len(event.page) = 2
    /\ event.total = 3

\* the rank of a returned favourite under a query's sort key, read from the
\* asset attached to it
PageFavKey(query, fav) ==
    CASE query.SortBy = "type" -> StrRank[heap[fav.Asset].Type]
      [] query.SortBy = "description" -> StrRank[heap[fav.Asset].Description]
      [] query.SortBy = "created_at" -> fav.CreatedAt

\* C19: ListFavourites ordering.  With SortBy type or description the page is
\* ordered by that field of each favourite's attached asset, with SortBy
\* created_at by the favourite's own CreatedAt: non-decreasing for Order asc,
\* non-increasing for Order desc.
C19_ListFavouritesOrdering ==
    (/\ event.op = "ListFavourites"
     /\ event.query.SortBy \in {"type", "description", "created_at"})
    => /\ \A i \in DOMAIN event.page : event.page[i].Asset # NilPtr
       /\ InOrder(event.query,
                  [i \in DOMAIN event.page |-> PageFavKey(event.query, event.page[i])])

\* a descending page by type whose assets differ in type, with a tie beside
C19_Witness ==
    /\ event.op = "ListFavourites"
    /\ event.query.SortBy = "type"
    /\ event.query.Order = "desc"
    /\ Len(event.page) = 3
    /\ PageFavKey(event.query, event.page[1]) > PageFavKey(event.query, event.page[3])
    /\ \E i \in {1, 2} :
          PageFavKey(event.query, event.page[i]) = PageFavKey(event.query, event.page[i + 1])

\* ---------------------------------------------------------------------------
\* Listing the catalog: stores of up to MaxListed assets and no favourites
InitListAssets ==
    \E n \in 0..MaxListed :
        \E ins \in [1..n -> ListInputs], sts \in [1..n -> ListStamps] :
            InitListed(n, ins, sts, {}, <<>>)

ListAssetsPaged(p) == ListAssetsOf(p, AssetPageQueries)

NextListAssets == ListAssetsRLock(Lister) \/ ListAssetsPaged(Lister)
SpecListAssets == InitListAssets /\ [][NextListAssets]_vars

\* C17: ListAssets pagination.  With n assets in the catalog ListAssets never
\* fails, returns total = n whatever Limit and Offset are, and a page of
\* min(Limit, max(0, n - Offset)) assets: empty when Offset is n or more, and
\* empty with total 0 for the empty catalog.
C17_ListAssetsPagination ==
    event.op = "ListAssets"
    => LET q == event.query
           n == Cardinality(DOMAIN assets)
       IN /\ event.err = ErrNil
          /\ event.total = n
          /\ Len(event.page) = Min(q.Limit, Max(0, n - q.Offset))
          /\ q.Offset >= n => event.page = <<>>
          /\ n = 0 => event.page = <<>> /\ event.total = 0
          /\ \A i \in DOMAIN event.page : event.page[i] \in MapValues(assets)
          /\ \A i, j \in DOMAIN event.page : i # j => event.page[i] # event.page[j]

\* the last page of three assets is a partial one
C17_Witness ==
    /\ event.op = "ListAssets"
    /\ Cardinality(DOMAIN assets) = 3
    /\ event.query.Limit = 2
    /\ event.query.Offset = 2
    /\ Len(event.page) = 1
    /\ event.total = 3

\* the rank of a listed asset under a query's sort key
AssetKey(query, a) ==
    CASE query.SortBy = "type" -> StrRank[heap[a].Type]
      [] query.SortBy = "description" -> StrRank[heap[a].Description]
      [] query.SortBy = "updated_at" -> heap[a].UpdatedAt
      [] query.SortBy = "created_at" -> heap[a].CreatedAt

Reverse(s) == [i \in DOMAIN s |-> s[Len(s) + 1 - i]]

\* the page is in the query's order
PageInOrder ==
    InOrder(event.query, [i \in DOMAIN event.page |-> AssetKey(event.query, event.page[i])])

\* an ascending listing of the whole catalog has just been returned
WholeAscending ==
    /\ event.op = "ListAssets"
    /\ event.query.SortBy \in AssetSortKeys
    /\ event.query.Order = "asc"
    /\ event.query.Offset = 0
    /\ event.query.Limit >= Cardinality(DOMAIN assets)

\* every descending listing of the same catalog is the page read backwards
DescIsReverse ==
    \A res \in ListAssetsResults([event.query EXCEPT !.Order = "desc"]) :
        res.page = Reverse(event.page)

\* no two assets of the catalog share the key of the query
KeysDistinct ==
    \A a, b \in MapValues(assets) :
        a # b => AssetKey(event.query, a) # AssetKey(event.query, b)

\* C18 as stated: ListAssets ordering.  For SortBy in {created_at, updated_at,
\* type, description} the page is non-decreasing in that key for Order asc and
\* non-increasing for Order desc, and for the same catalog the desc sequence
\* is the exact reverse of the asc sequence.
C18_ListAssetsOrdering ==
    /\ (event.op = "ListAssets" /\ event.query.SortBy \in AssetSortKeys) => PageInOrder
    /\ WholeAscending => DescIsReverse

\* C18 amended: the page is non-decreasing in the key for asc and
\* non-increasing for desc; the desc sequence is the exact reverse of the asc
\* sequence when no two assets of the catalog have equal keys.
C18_ListAssetsOrderingDistinctKeys ==
    /\ (event.op = "ListAssets" /\ event.query.SortBy \in AssetSortKeys) => PageInOrder
    /\ (WholeAscending /\ KeysDistinct) => DescIsReverse

\* two assets of different types were listed whole, ascending by type
C18_Witness ==
    /\ WholeAscending
    /\ KeysDistinct
    /\ event.query.SortBy = "type"
    /\ Len(event.page) = 2
    /\ AssetKey(event.query, event.page[1]) < AssetKey(event.query, event.page[2])

\* ---------------------------------------------------------------------------
\* Sanity.  No call of the store leaves an orphan, so the stores are drawn as
\* the test of Sanity makes them: a catalog, and favourites written straight
\* into r.favourites, under a key that need not be the favourite's own ID and
\* for an asset that need not be in the catalog.
NoSlot == [ID |-> "none"]
Slots == {NoSlot} \cup [ID : FavIDs, AssetID : AssetIDs]

InitSanity ==
    \E catalog \in SUBSET AssetIDs, users \in SUBSET UserIDs :
        \E slots \in [users -> [FavIDs -> Slots]] :
            /\ assets = [a \in catalog |-> CHOOSE x \in Addrs : CreatorIDs[x] = a]
            /\ heap = [x \in Addrs |->
                          IF CreatorIDs[x] \in catalog
                          THEN NewAsset(CreatorIDs[x], "chart", "d1", 0)
                          ELSE NoObj]
            /\ favourites =
                   [u \in users |->
                       [k \in {f \in FavIDs : slots[u][f] # NoSlot} |->
                           NewFavourite(slots[u][k].ID, u, slots[u][k].AssetID, 0)]]
            /\ mu = MuFree
            /\ clock = MaxTime
            /\ pc = [p \in {Lister} |-> "idle"]
            /\ loc = [p \in {Lister} |-> NoLocal]
            /\ left = 0 /\ appConfig = NilPtr
            /\ event = NoEvent
            /\ committed = StoreOf(assets, heap, favourites)

NextSanity == SanityRLock(Lister) \/ Sanity(Lister)
SpecSanity == InitSanity /\ [][NextSanity]_vars

\* the places (user key, favourite key) of r.favourites whose favourite names
\* an asset that is not in the catalog
OrphanPlaces ==
    {pl \in UserIDs \X FavIDs :
        /\ pl[1] \in DOMAIN favourites
        /\ pl[2] \in DOMAIN favourites[pl[1]]
        /\ favourites[pl[1]][pl[2]].AssetID \notin DOMAIN assets}

\* C20: Sanity returns no error exactly when every stored favourite's AssetID
\* is in the catalog (the store with no favourites included); when there is
\* an orphan it returns the orphan error naming a user ID, a favourite ID and
\* an asset ID such that the favourite stored for that user under that ID has
\* that AssetID and the catalog has no such asset.
C20_Sanity ==
    event.op = "Sanity"
    => /\ event.res.err = ErrNil <=> OrphanPlaces = {}
       /\ event.res.err # ErrNil =>
             /\ event.res.err = ErrOrphan
             /\ <<event.res.orphan.userID, event.res.orphan.favID>> \in OrphanPlaces
             /\ favourites[event.res.orphan.userID][event.res.orphan.favID].AssetID
                    = event.res.orphan.assetID
             /\ event.res.orphan.assetID \notin DOMAIN assets

\* an orphan was reported from a store that also holds a sound favourite
C20_Witness ==
    /\ event.op = "Sanity"
    /\ event.res.err = ErrOrphan
    /\ \E u \in DOMAIN favourites : \E k \in DOMAIN favourites[u] :
          favourites[u][k].AssetID \in DOMAIN assets

\* ---------------------------------------------------------------------------
\* One caller that builds a store with the mutating methods and calls every
\* read method in between.
InitReads == InitWith({Lister}) /\ event = NoEvent /\ left = MaxLockWrites /\ appConfig = NilPtr

NextReads ==
    \/ WriteStep(Lister)
    \/ ReadStep(Lister)
    \/ ListAssetsRLock(Lister)
    \/ ListAssets(Lister)
    \/ Ping(Lister)
SpecReads == InitReads /\ [][NextReads]_vars

\* where a goroutine is inside a read method
ReadSections == {"getasset", "isfav", "getfav", "listfav", "sanity", "listassets"}

\* the step is one of a read method: its RLock, its return, or a Ping
StepOfRead ==
    \/ \E p \in DOMAIN pc : pc[p] \in ReadSections \/ pc'[p] \in ReadSections
    \/ event'.op = "Ping"

\* C21: read operations have no effect.  Every step of GetAsset, GetFavourite,
\* IsFavourite, ListFavourites, ListAssets, Sanity and Ping leaves the asset
\* map, every asset record and the favourite map as they were; no Asset
\* attachment is written into a stored favourite.
C21_ReadsHaveNoEffect ==
    [][StepOfRead => UNCHANGED <<assets, heap, favourites>>]_vars

\* GetFavourite returned a favourite with its asset attached while the stored
\* favourite has none
C21_Witness ==
    /\ event.op = "GetFavourite"
    /\ event.err = ErrNil
    /\ event.val.Asset # NilPtr
    /\ favourites[event.userID][event.favouriteID].Asset = NilPtr

\* ---------------------------------------------------------------------------
\* Page queries on their way from the handler to the store.
\* config.load: MAX_PAGE_ITEMS, by default
MaxPageItems == 100

\* the query parameters a request can carry (strconv.Atoi gives 0 for none)
LimitInputs == {-1, 0, 1, 50, 100, 101, 200, 1000, 1001}
OffsetInputs == {-10, 0, 5}
SortByInputs == {"", "created_at", "updated_at", "type", "description", "name"}
OrderInputs == {"", "asc", "desc", "invalid"}
Kinds == {"favourites", "assets"}

\* variant: the service forwards the query as it got it
EnforceNothing(query) == query

\* FavouriteService.ListFavourites, "Enforce maximum"
EnforceLimit(query) ==
    IF query.Limit > MaxPageItems THEN [query EXCEPT !.Limit = MaxPageItems] ELSE query

\* a store with two assets, both favourites of ListUser; the handler of a
\* request for favourites or for assets holds the request's parameters
InitQuery ==
    \E l \in LimitInputs, o \in OffsetInputs, s \in SortByInputs, d \in OrderInputs,
       k \in Kinds :
        /\ assets = [a \in {"a1", "a2"} |-> IF a = "a1" THEN 1 ELSE 2]
        /\ heap = [x \in Addrs |->
                      CASE x = 1 -> NewAsset("a1", "chart", "d2", 0)
                        [] x = 2 -> NewAsset("a2", "insight", "d1", 1)
                        [] OTHER -> NoObj]
        /\ favourites = [u \in {ListUser} |->
                            [f \in {"f1", "f2"} |->
                                IF f = "f1" THEN NewFavourite("f1", ListUser, "a1", 0)
                                ELSE NewFavourite("f2", ListUser, "a2", 1)]]
        /\ mu = MuFree
        /\ clock = MaxTime
        /\ pc = [p \in {Lister} |-> "idle"]
        /\ loc = [p \in {Lister} |->
                     [op |-> "args", kind |-> k, limit |-> l, offset |-> o,
                      sortBy |-> s, order |-> d]]
        /\ left = 0 /\ appConfig = NilPtr
        /\ event = NoEvent
        /\ committed = StoreOf(assets, heap, favourites)

\* Handler.ListFavourites / Handler.ListAssets: domain.NewPageQuery on the
\* request's parameters
BuildPageQuery(p) ==
    /\ pc[p] = "idle"
    /\ loc[p].op = "args"
    /\ LET query == NewPageQuery(loc[p].limit, loc[p].offset, loc[p].sortBy, loc[p].order)
       IN /\ loc' = [loc EXCEPT ![p] = [op |-> "query", kind |-> loc[p].kind, query |-> query]]
          /\ event' = Record([op |-> "NewPageQuery", limit |-> loc[p].limit,
                              offset |-> loc[p].offset, sortBy |-> loc[p].sortBy,
                              order |-> loc[p].order, query |-> query])
    /\ UNCHANGED <<assets, heap, favourites, mu, clock, pc, left, appConfig, committed>>

\* the service is called with the handler's query: the ceiling is enforced
\* and the repository's method is entered
ServiceListCall(p, kind, stage) ==
    /\ pc[p] = "idle"
    /\ loc[p].op = "query"
    /\ loc[p].kind = kind
    /\ CanRLock
    /\ mu' = RLock
    /\ pc' = [pc EXCEPT ![p] = stage]
    /\ loc' = [loc EXCEPT ![p] = [op |-> "forwarded", given |-> loc[p].query,
                                  query |-> EnforceLimit(loc[p].query)]]
    /\ event' = Record(NoEvent)
    /\ UNCHANGED <<assets, heap, favourites, clock, left, appConfig, committed>>

\* the repository's result goes back through the service to the caller
ServiceListReturn(p, op, given, query, res) ==
    /\ mu' = RUnlock
    /\ pc' = [pc EXCEPT ![p] = Rest(p)]
    /\ loc' = [loc EXCEPT ![p] = NoLocal]
    /\ event' = Record([op |-> op, given |-> given, query |-> query, repo |-> res,
                        page |-> res.page, total |-> res.total, err |-> res.err])
    /\ UNCHANGED <<assets, heap, favourites, clock, left, appConfig, committed>>

ServiceListFavouritesCall(p) == ServiceListCall(p, "favourites", "svc_listfav")

\* FavouriteService.ListFavourites: return s.repo.ListFavourites(ctx, userID, query)
ServiceListFavourites(p) ==
    /\ pc[p] = "svc_listfav"
    /\ \E u \in UserIDs : \E res \in ListFavouritesResults(u, loc[p].query) :
          ServiceListReturn(p, "Service.ListFavourites", loc[p].given, loc[p].query, res)

ServiceListAssetsCall(p) == ServiceListCall(p, "assets", "svc_listassets")

\* FavouriteService.ListAssets: the same ceiling, then the repository's ListAssets
ServiceListAssets(p) ==
    /\ pc[p] = "svc_listassets"
    /\ \E res \in ListAssetsResults(loc[p].query) :
          ServiceListReturn(p, "Service.ListAssets", loc[p].given, loc[p].query, res)

NextQuery ==
    \/ BuildPageQuery(Lister)
    \/ ServiceListFavouritesCall(Lister)
    \/ ServiceListFavourites(Lister)
    \/ ServiceListAssetsCall(Lister)
    \/ ServiceListAssets(Lister)
SpecQuery == InitQuery /\ [][NextQuery]_vars

\* C22: page-query normalization of Limit, Offset and Order.  For every limit,
\* offset and order NewPageQuery returns a query with 1 <= Limit <=
\* MaxPageItems (a limit <= 0 or > MaxPageItems becomes MaxPageItems, a valid
\* limit is kept), Offset >= 0 (negative becomes 0, otherwise kept) and Order
\* asc or desc (anything else becomes desc).
C22_PageQueryNormalization ==
    event.op = "NewPageQuery"
    => /\ 1 <= event.query.Limit /\ event.query.Limit <= MaxPageItems
       /\ event.query.Limit =
              IF event.limit <= 0 \/ event.limit > MaxPageItems
              THEN MaxPageItems ELSE event.limit
       /\ event.query.Offset = IF event.offset < 0 THEN 0 ELSE event.offset
       /\ event.query.Order = IF event.order \in {"asc", "desc"} THEN event.order ELSE "desc"

\* C23: sort-key whitelist.  Every query built by NewPageQuery and passed to
\* the store has SortBy in {created_at, type, description} for favourites and
\* in {created_at, updated_at, type, description} for assets; an empty or
\* unlisted sortBy input is replaced by created_at.
C23_SortKeyWhitelist ==
    /\ event.op = "Service.ListFavourites" => event.query.SortBy \in FavSortKeys
    /\ event.op = "Service.ListAssets" => event.query.SortBy \in AssetSortKeys
    /\ (event.op = "NewPageQuery" /\ event.sortBy \notin AssetSortKeys)
           => event.query.SortBy = "created_at"

ReturnedFavs ==
    CASE event.op = "GetFavourite" /\ event.err = ErrNil -> {event.val}
      [] event.op = "ListFavourites" -> {event.page[i] : i \in DOMAIN event.page}
      [] OTHER -> {}

\* C25: fresh attachment.  A favourite returned by GetFavourite or
\* ListFavourites carries the asset GetAsset returns for its AssetID at the
\* time of the read, whose fields are those the last completed mutation left:
\* after a successful UpdateAssetDescription(A, text) the next read shows
\* Description = text and the new UpdatedAt.
C25_FreshAttachment ==
    \A fav \in ReturnedFavs :
        fav.AssetID \in DOMAIN assets
        => /\ GetAssetResult(fav.AssetID) = [val |-> fav.Asset, err |-> ErrNil]
           /\ heap[fav.Asset] = committed.assets[fav.AssetID]
           /\ heap[fav.Asset].ID = fav.AssetID

\* a favourite added before its asset was updated is read after the update,
\* while the catalog holds another asset as well
C25_Witness ==
    \E fav \in ReturnedFavs :
        /\ fav.Asset # NilPtr
        /\ heap[fav.Asset].UpdatedAt > heap[fav.Asset].CreatedAt
        /\ heap[fav.Asset].UpdatedAt > fav.CreatedAt

\* C26: exclusive ownership.  A record returned by GetAsset is not aliased
\* with the stored record: whenever no write is in progress, the record a
\* caller obtained earlier still has the Description and UpdatedAt it had
\* when GetAsset returned it, whatever UpdateAssetDescription calls have run
\* since.
C26_ExclusiveOwnership ==
    \A p \in Procs :
        (loc[p].op = "GetAsset" /\ mu.w = FALSE)
        => loc[p].whole = {<<heap[loc[p].ptr].Description, heap[loc[p].ptr].UpdatedAt>>}

\* what a step of the store may do to the presence of records
LifecycleStep ==
    LET created == DOMAIN assets' \ DOMAIN assets
        deleted == DOMAIN assets \ DOMAIN assets'
        added == StoredFavs(favourites') \ StoredFavs(favourites)
        removed == StoredFavs(favourites) \ StoredFavs(favourites')
    IN /\ created # {} =>
              /\ event'.op = "CreateAsset" /\ event'.err = ErrNil
              /\ created = {event'.asset.ID}
       /\ deleted # {} =>
              \E p \in DOMAIN pc :
                  /\ pc[p] = "delete" /\ pc'[p] = "cascade"
                  /\ deleted = {loc'[p].assetID}
       /\ added # {} =>
              /\ event'.op = "AddFavourite" /\ event'.err = ErrNil
              /\ added = {<<event'.favourite.UserID, event'.favourite.ID>>}
       /\ removed # {} =>
              \/ /\ event'.op = "RemoveFavourite" /\ event'.err = ErrNil
                 /\ removed = {<<event'.userID, event'.favouriteID>>}
              \/ /\ event'.op = "DeleteAsset" /\ event'.err = ErrNil
                 /\ removed = FavsOf(favourites, event'.assetID)
       /\ event'.op \in {"UpdateAssetDescription", "DeleteAsset"} =>
              /\ event'.err = ErrNotFound <=> event'.assetID \notin DOMAIN event'.pre.assets
              /\ event'.err = ErrNotFound => UNCHANGED <<assets, heap, favourites>>
       /\ event'.op = "UpdateAssetDescription" =>
              /\ DOMAIN assets' = DOMAIN assets
              /\ favourites' = favourites

\* C27: two-state lifecycle.  An asset becomes present only through a
\* successful CreateAsset and absent only through a successful DeleteAsset; a
\* favourite becomes present only through a successful AddFavourite and absent
\* only through RemoveFavourite or the cascade of DeleteAsset;
\* UpdateAssetDescription and DeleteAsset on an absent ID return NotFound and
\* neither create nor change any record.
C27_TwoStateLifecycle == [][LifecycleStep]_vars

\* an update of an ID that was created and deleted returned NotFound
C27_Witness ==
    /\ event.op = "UpdateAssetDescription"
    /\ event.err = ErrNotFound
    /\ \E x \in Addrs : heap[x].ID = event.assetID
    /\ assets # EmptyMap

\* ---------------------------------------------------------------------------
\* Favourites built by domain.NewFavourite, whose ID is uuid.New().
NewFavIDs == {"f1", "f2", "f3"}

\* variant: an ID that is new among the favourites of the user only
FreshIDsOfUser(userID, assetID) ==
    NewFavIDs \ {favourites[x[1]][x[2]].ID : x \in {y \in StoredFavs(favourites) : y[1] = userID}}

\* variant: any ID, one a stored favourite of the user has included
FreshIDsAny(userID, assetID) == NewFavIDs

\* what uuid.New() can return in NewFavourite(userID, assetID): an ID no
\* stored favourite has (a version-4 UUID repeats none given out before)
FreshIDs(userID, assetID) ==
    NewFavIDs \ {favourites[x[1]][x[2]].ID : x \in StoredFavs(favourites)}

\* AddFavourite called as FavouriteService.AddFavourite calls it
AddFavouriteNew(p) ==
    \E u \in UserIDs, a \in AssetIDs, now \in NowReadings :
        \E id \in FreshIDs(u, a) :
            AddFavouriteOf(p, NewFavourite(id, u, a, now))

InitNew == InitWith(Procs) /\ event = NoEvent /\ left = MaxLockWrites /\ appConfig = NilPtr

NextNew ==
    \E p \in Procs :
        \/ CreateAssetLock(p)
        \/ CreateAsset(p)
        \/ DeleteAssetLock(p)
        \/ DeleteAsset(p)
        \/ DeleteAssetCascade(p)
        \/ AddFavouriteLock(p)
        \/ AddFavouriteNew(p)
        \/ RemoveFavouriteLock(p)
        \/ RemoveFavourite(p)
SpecNew == InitNew /\ [][NextNew]_vars

MaxLiveWrites == 2

EntryStages == {"create", "update", "delete", "addfav", "remfav"}

\* the goroutines that are blocked in Lock or hold the write lock
WritersAtLock == {q \in DOMAIN pc : pc[q] = "wait_w" \/ pc[q] \in WriteStages}

\* a mutating method is called: the goroutine reaches r.mu.Lock()
CallLock(p) ==
    /\ pc[p] = "idle"
    /\ left > Cardinality(WritersAtLock)
    /\ pc' = [pc EXCEPT ![p] = "wait_w"]
    /\ UNCHANGED <<assets, heap, favourites, mu, clock, loc, left, appConfig, event, committed>>

\* a read method is called: the goroutine reaches r.mu.RLock()
CallRLock(p) ==
    /\ pc[p] = "idle"
    /\ pc' = [pc EXCEPT ![p] = "wait_r"]
    /\ UNCHANGED <<assets, heap, favourites, mu, clock, loc, left, appConfig, event, committed>>

\* r.mu.Lock() returns in the method that was called
LockGranted(p) ==
    /\ pc[p] = "wait_w"
    /\ CanLock
    /\ mu' = Lock
    /\ \E stage \in EntryStages : pc' = [pc EXCEPT ![p] = stage]
    /\ event' = Record(NoEvent)
    /\ committed' = Store
    /\ UNCHANGED <<assets, heap, favourites, clock, loc, left, appConfig>>

\* r.mu.RLock() returns in the method that was called
RLockGranted(p) ==
    /\ pc[p] = "wait_r"
    /\ CanRLock
    /\ \A q \in DOMAIN pc : pc[q] # "wait_w"
    /\ mu' = RLock
    /\ \E stage \in ReadSections : pc' = [pc EXCEPT ![p] = stage]
    /\ event' = Record(NoEvent)
    /\ UNCHANGED <<assets, heap, favourites, clock, loc, left, appConfig, committed>>

\* the steps of the methods between taking the lock and returning
WriteBody(p) ==
    \/ CreateAsset(p)
    \/ UpdateAssetDescription(p)
    \/ UpdateAssetUpdatedAt(p)
    \/ DeleteAsset(p)
    \/ DeleteAssetCascade(p)
    \/ AddFavourite(p)
    \/ RemoveFavourite(p)

ReadBody(p) ==
    \/ GetAsset(p)
    \/ IsFavourite(p)
    \/ GetFavourite(p)
    \/ ListFavourites(p)
    \/ Sanity(p)
    \/ ListAssets(p)

InitLive == InitWith(Procs) /\ event = Unobserved /\ left = MaxLiveWrites /\ appConfig = NilPtr

NextLive ==
    \E p \in Procs :
        \/ CallLock(p)
        \/ CallRLock(p)
        \/ LockGranted(p)
        \/ RLockGranted(p)
        \/ WriteBody(p)
        \/ ReadBody(p)

\* the scheduler runs every goroutine that can run, and the mutex hands the
\* lock to a goroutine that keeps waiting for it
FairLive ==
    \A p \in Procs :
        SF_vars(LockGranted(p) \/ RLockGranted(p) \/ WriteBody(p) \/ ReadBody(p))

SpecLive == InitLive /\ [][NextLive]_vars /\ FairLive

\* C29: every store operation terminates and frees the lock.  Under fair
\* scheduling each invoked operation eventually returns, which it does only
\* after it has acquired the lock, and the lock is free whenever no operation
\* is in progress.
C29_TerminatesAndFrees ==
    /\ [](((\A p \in Procs : pc[p] \in {"idle", "wait_w", "wait_r"}) => mu = MuFree))
    /\ [][\A p \in Procs :
             /\ (pc[p] = "wait_w" /\ pc'[p] # "wait_w") => (pc'[p] \in WriteStages /\ mu'.w)
             /\ (pc[p] = "wait_r" /\ pc'[p] # "wait_r") => (pc'[p] \in ReadSections /\ mu'.r > 0)
             /\ (pc[p] # "idle" /\ pc'[p] = "idle")
                    => pc[p] \in WriteStages \cup ReadSections]_vars
    /\ \A p \in Procs : (pc[p] # "idle") ~> (pc[p] = "idle")

\* a goroutine is blocked in Lock while the other holds the read lock
C29_Witness ==
    \E p, q \in Procs :
        /\ pc[p] = "wait_w"
        /\ pc[q] \in ReadSections
        /\ assets # EmptyMap

\* ---------------------------------------------------------------------------
\* FavouriteService.AddFavourite: three calls to the store, each under its own
\* lock, and nothing held in between, so another goroutine's call can fall
\* between the service's checks and its repo.AddFavourite.
\* loc[p] holds userID, assetID, then asset (what GetAsset returned) and fav.
ServiceStages == {"svc_getasset", "svc_isfav_call", "svc_isfav", "svc_add_call",
                  "svc_addfav", "svc_attach"}

\* the favourites that calls of the service have built and not yet returned
FavsInHand == {loc[q].fav : q \in {x \in DOMAIN pc : pc[x] \in {"svc_add_call", "svc_addfav", "svc_attach"}}}

\* uuid.New() in NewFavourite: an ID no favourite has, stored or in hand
ServiceFreshIDs == (NewFavIDs \ {favourites[x[1]][x[2]].ID : x \in StoredFavs(favourites)})
                       \ {f.ID : f \in FavsInHand}

\* variant: the favourite is returned as NewFavourite built it
AttachFetchedNothing(fav, asset) == fav

\* `fav.Asset = asset`
AttachFetched(fav, asset) == [fav EXCEPT !.Asset = asset]

\* what the service returns to the handler; called tells whether the call got
\* as far as repo.AddFavourite, wrapped whether the error went through
\* fmt.Errorf("asset not found: %w", err)
ServiceReturned(p, val, err, wrapped, called) ==
    [op |-> "Service.AddFavourite", userID |-> loc[p].userID,
     assetID |-> loc[p].assetID, val |-> val, err |-> err, wrapped |-> wrapped,
     called |-> called]

\* the call, up to r.mu.RLock() in repo.GetAsset, for a caller whose
\* arguments are among users and assetIDs
ServiceAddFavouriteCallOf(p, users, assetIDs) ==
    /\ pc[p] = "idle"
    /\ CanRLock
    /\ \E u \in users, a \in assetIDs :
        loc' = [loc EXCEPT ![p] = [op |-> "Service.AddFavourite", userID |-> u,
                                   assetID |-> a]]
    /\ mu' = RLock
    /\ pc' = [pc EXCEPT ![p] = "svc_getasset"]
    /\ event' = Record(NoEvent)
    /\ UNCHANGED <<assets, heap, favourites, clock, left, appConfig, committed>>

ServiceAddFavouriteCall(p) == ServiceAddFavouriteCallOf(p, UserIDs, AssetIDs)

\* `asset, err := s.repo.GetAsset(ctx, assetID)` and the return on its error
ServiceAddFavouriteGetAsset(p) ==
    /\ pc[p] = "svc_getasset"
    /\ mu' = RUnlock
    /\ LET res == GetAssetResult(loc[p].assetID) IN
        IF res.err # ErrNil
        THEN /\ pc' = [pc EXCEPT ![p] = Rest(p)]
             /\ loc' = [loc EXCEPT ![p] = NoLocal]
             /\ event' = Record(ServiceReturned(p, NoObj, res.err, TRUE, FALSE))
        ELSE /\ pc' = [pc EXCEPT ![p] = "svc_isfav_call"]
             /\ loc' = [loc EXCEPT ![p] =
                   [op |-> "Service.AddFavourite", userID |-> loc[p].userID,
                    assetID |-> loc[p].assetID, asset |-> res.val]]
             /\ event' = Record(NoEvent)
    /\ UNCHANGED <<assets, heap, favourites, clock, left, appConfig, committed>>

\* r.mu.RLock() in repo.IsFavourite
ServiceAddFavouriteIsFavouriteRLock(p) ==
    /\ pc[p] = "svc_isfav_call"
    /\ CanRLock
    /\ mu' = RLock
    /\ pc' = [pc EXCEPT ![p] = "svc_isfav"]
    /\ event' = Record(NoEvent)
    /\ UNCHANGED <<assets, heap, favourites, clock, loc, left, appConfig, committed>>

\* `isFav, err := s.repo.IsFavourite(...)`, the return when it is one, and
\* otherwise `fav := domain.NewFavourite(userID, assetID)`
ServiceAddFavouriteIsFavourite(p) ==
    /\ pc[p] = "svc_isfav"
    /\ mu' = RUnlock
    /\ LET res == IsFavouriteResult(loc[p].userID, loc[p].assetID) IN
        IF res.err # ErrNil \/ res.val
        THEN /\ pc' = [pc EXCEPT ![p] = Rest(p)]
             /\ loc' = [loc EXCEPT ![p] = NoLocal]
             /\ event' = Record(ServiceReturned(p, NoObj,
                             IF res.err # ErrNil THEN res.err ELSE ErrAlreadyExists,
                             FALSE, FALSE))
             /\ UNCHANGED clock
        ELSE \E id \in ServiceFreshIDs, now \in NowReadings :
             /\ pc' = [pc EXCEPT ![p] = "svc_add_call"]
             /\ loc' = [loc EXCEPT ![p] =
                   [op |-> "Service.AddFavourite", userID |-> loc[p].userID,
                    assetID |-> loc[p].assetID, asset |-> loc[p].asset,
                    fav |-> NewFavourite(id, loc[p].userID, loc[p].assetID, now)]]
             /\ event' = Record(NoEvent)
             /\ clock' = now
    /\ UNCHANGED <<assets, heap, favourites, left, appConfig, committed>>

\* r.mu.Lock() in repo.AddFavourite; a call that is going to store the
\* favourite needs one of the writes that are left
ServiceAddFavouriteLock(p) ==
    /\ pc[p] = "svc_add_call"
    /\ \/ left > 0
       \/ ~AddFavouriteAssetExists(loc[p].fav)
       \/ /\ loc[p].userID \in DOMAIN favourites
          /\ AddFavouriteAlready(favourites[loc[p].userID], loc[p].fav)
    /\ CanLock
    /\ mu' = Lock
    /\ pc' = [pc EXCEPT ![p] = "svc_addfav"]
    /\ event' = Record(NoEvent)
    /\ committed' = Store
    /\ UNCHANGED <<assets, heap, favourites, clock, loc, left, appConfig>>

\* `if err := s.repo.AddFavourite(ctx, fav); err != nil { return nil, err }`:
\* the body of the store's AddFavourite for the favourite in hand
ServiceAddFavouriteRepo(p) ==
    /\ pc[p] = "svc_addfav"
    /\ mu' = Unlock
    /\ LET favourite == loc[p].fav
           fs == IF favourite.UserID \in DOMAIN favourites
                 THEN favourites
                 ELSE MapPut(favourites, favourite.UserID, EmptyMap)
           fail(e, fs1) ==
               /\ pc' = [pc EXCEPT ![p] = Rest(p)]
               /\ loc' = [loc EXCEPT ![p] = NoLocal]
               /\ event' = Record(ServiceReturned(p, NoObj, e, FALSE, TRUE))
               /\ favourites' = fs1
               /\ UNCHANGED <<left, appConfig>>
       IN IF ~AddFavouriteAssetExists(favourite)
          THEN fail(ErrNotFound, favourites)
          ELSE IF AddFavouriteAlready(fs[favourite.UserID], favourite)
          THEN fail(ErrAlreadyExists, fs)
          ELSE /\ pc' = [pc EXCEPT ![p] = "svc_attach"]
               /\ favourites' = MapPut(fs, favourite.UserID,
                      MapPut(fs[favourite.UserID], favourite.ID, favourite))
               /\ left' = left - 1
               /\ UNCHANGED appConfig
               /\ event' = Record(NoEvent)
               /\ UNCHANGED loc
    /\ committed' = StoreOf(assets, heap, favourites')
    /\ UNCHANGED <<assets, heap, clock>>

\* `fav.Asset = asset; return fav, nil`.  fav is the pointer the store keeps,
\* so the favourite in the map, if it is still there, gets the asset too.
ServiceAddFavouriteReturn(p) ==
    /\ pc[p] = "svc_attach"
    /\ LET fav == AttachFetched(loc[p].fav, loc[p].asset)
           u == fav.UserID
       IN /\ favourites' =
                 IF u \in DOMAIN favourites /\ fav.ID \in DOMAIN favourites[u]
                 THEN [favourites EXCEPT ![u][fav.ID] = fav]
                 ELSE favourites
          /\ event' = Record(ServiceReturned(p, fav, ErrNil, FALSE, TRUE))
    /\ pc' = [pc EXCEPT ![p] = Rest(p)]
    /\ loc' = [loc EXCEPT ![p] = NoLocal]
    /\ UNCHANGED <<assets, heap, mu, clock, left, appConfig, committed>>

\* FavouriteService.CreateAsset, for one type and description
ServiceCreateAsset(p) ==
    \E id \in AssetIDs, now \in NowReadings :
        CreateAssetOf(p, NewAsset(id, "chart", "d1", now))

\* Goroutines that add favourites through the service while assets are created
\* and deleted.
MaxServiceWrites == 2
InitService == InitWith(Procs) /\ event = NoEvent /\ left = MaxServiceWrites /\ appConfig = NilPtr

NextService ==
    \E p \in Procs :
        \/ CreateAssetLock(p)
        \/ ServiceCreateAsset(p)
        \/ DeleteAssetLock(p)
        \/ DeleteAsset(p)
        \/ DeleteAssetCascade(p)
        \/ ServiceAddFavouriteCall(p)
        \/ ServiceAddFavouriteGetAsset(p)
        \/ ServiceAddFavouriteIsFavouriteRLock(p)
        \/ ServiceAddFavouriteIsFavourite(p)
        \/ ServiceAddFavouriteLock(p)
        \/ ServiceAddFavouriteRepo(p)
        \/ ServiceAddFavouriteReturn(p)
SpecService == InitService /\ [][NextService]_vars

\* what a goroutine's step inside FavouriteService.AddFavourite must do
ServiceReturns(p, err) ==
    /\ pc'[p] = "idle"
    /\ event'.op = "Service.AddFavourite"
    /\ event'.userID = loc[p].userID /\ event'.assetID = loc[p].assetID
    /\ event'.err = err

ServiceRefuses(p, err) ==
    /\ ServiceReturns(p, err)
    /\ event'.val = NoObj
    /\ UNCHANGED <<assets, heap, favourites>>

\* the outcomes of the service's own two checks and of the successful call
ServiceOutcomes(p) ==
    /\ pc[p] = "svc_getasset" /\ pc'[p] # pc[p] =>
          IF loc[p].assetID \notin DOMAIN assets
          THEN ServiceRefuses(p, ErrNotFound) /\ event'.wrapped /\ ~event'.called
          ELSE pc'[p] = "svc_isfav_call" /\ UNCHANGED <<assets, heap, favourites>>
    /\ pc[p] = "svc_isfav" /\ pc'[p] # pc[p] =>
          IF /\ loc[p].userID \in DOMAIN favourites
             /\ \E f \in DOMAIN favourites[loc[p].userID] :
                    favourites[loc[p].userID][f].AssetID = loc[p].assetID
          THEN ServiceRefuses(p, ErrAlreadyExists) /\ ~event'.called
          ELSE pc'[p] = "svc_add_call" /\ UNCHANGED <<assets, heap, favourites>>
    /\ pc[p] = "svc_addfav" /\ pc'[p] = "svc_attach" =>
          /\ loc[p].assetID \in DOMAIN assets
          /\ \A x \in StoredFavs(favourites) :
                /\ favourites[x[1]][x[2]].ID # loc[p].fav.ID
                /\ ~(x[1] = loc[p].userID /\ favourites[x[1]][x[2]].AssetID = loc[p].assetID)
          /\ favourites'[loc[p].userID][loc[p].fav.ID] = loc[p].fav
    /\ pc[p] = "svc_attach" /\ pc'[p] # pc[p] =>
          /\ ServiceReturns(p, ErrNil)
          /\ event'.val.ID = loc[p].fav.ID
          /\ event'.val.UserID = loc[p].userID
          /\ event'.val.AssetID = loc[p].assetID
          /\ event'.val.Asset # NilPtr
          /\ heap[event'.val.Asset].ID = loc[p].assetID
          /\ UNCHANGED <<assets, heap>>

\* the store's own refusal, when the store changed after the service's checks
ServiceRepoRefuses(p) ==
    pc[p] = "svc_addfav" /\ pc'[p] \notin {"svc_addfav", "svc_attach"} =>
        /\ \/ /\ loc[p].assetID \notin DOMAIN assets
              /\ ServiceRefuses(p, ErrNotFound)
           \/ /\ loc[p].assetID \in DOMAIN assets
              /\ \E f \in DOMAIN favourites[loc[p].userID] :
                     favourites[loc[p].userID][f].AssetID = loc[p].assetID
              /\ ServiceRefuses(p, ErrAlreadyExists)
        /\ event'.called

\* C30 as stated: FavouriteService.AddFavourite(u, a) returns an error wrapping
\* NotFound and no favourite when asset a does not exist, AlreadyExists and no
\* favourite when u already favourited a, and otherwise a new favourite with
\* UserID = u, AssetID = a and the asset attached; on either error the store's
\* AddFavourite is not called and the store is unchanged.
C30_ServiceAddFavouriteOutcomes ==
    [][\A p \in Procs :
          /\ ServiceOutcomes(p)
          /\ (pc[p] \in ServiceStages /\ pc'[p] = "idle" /\ event'.err # ErrNil) =>
                (~event'.called /\ UNCHANGED <<assets, heap, favourites>>)]_vars

\* C30, amended: the outcomes are those of the service's two checks, made one
\* after the other with the store free to change in between.  A missing asset
\* at GetAsset gives the wrapped NotFound, a favourite found by IsFavourite
\* gives AlreadyExists, both without a call of the store's AddFavourite;
\* otherwise the store's AddFavourite is called, and either it stores the new
\* favourite, which is returned with UserID = u, AssetID = a and the asset
\* attached, or, the asset having gone or the favourite having appeared since
\* the checks, it refuses with NotFound or AlreadyExists.  On every error no
\* favourite is returned and the call leaves the store unchanged.
C30_ServiceAddFavouriteOutcomesOfChecks ==
    [][\A p \in Procs :
          /\ ServiceOutcomes(p)
          /\ ServiceRepoRefuses(p)
          /\ (pc[p] \in ServiceStages /\ pc'[p] = "idle" /\ event'.err # ErrNil) =>
                (event'.val = NoObj /\ UNCHANGED <<assets, heap, favourites>>)]_vars

\* a call of the service has just been refused by its IsFavourite check, the
\* user's favourite of that asset being in the store
C30_Witness ==
    /\ event.op = "Service.AddFavourite"
    /\ event.err = ErrAlreadyExists
    /\ ~event.called
    /\ event.userID \in DOMAIN favourites
    /\ \E f \in DOMAIN favourites[event.userID] :
           /\ favourites[event.userID][f].AssetID = event.assetID
           /\ favourites[event.userID][f].Asset # NilPtr

\* ---------------------------------------------------------------------------
\* FavouriteService.UpdateAssetDescription: the description is looked at
\* before the store is called.
ErrEmptyDescription == "description cannot be empty"
ServiceDescs == {""} \cup Descs

\* variant: every description goes on to the store
ServiceRejectsNothing(description) == FALSE

\* `if description == ""`
ServiceRejects(description) == description = ""

\* the call, with the arguments the handler passes
ServiceUpdateAssetDescriptionCall(p) ==
    /\ pc[p] = "idle"
    /\ \E id \in AssetIDs, description \in ServiceDescs :
        loc' = [loc EXCEPT ![p] = [op |-> "Service.UpdateAssetDescription",
                                   assetID |-> id, description |-> description]]
    /\ pc' = [pc EXCEPT ![p] = "svc_update_check"]
    /\ event' = Record(NoEvent)
    /\ UNCHANGED <<assets, heap, favourites, mu, clock, left, appConfig, committed>>

\* the check: the error, or `return s.repo.UpdateAssetDescription(...)` up to
\* its r.mu.Lock()
ServiceUpdateAssetDescriptionCheck(p) ==
    /\ pc[p] = "svc_update_check"
    /\ IF ServiceRejects(loc[p].description)
       THEN /\ pc' = [pc EXCEPT ![p] = Rest(p)]
            /\ loc' = [loc EXCEPT ![p] = NoLocal]
            /\ event' = Record([op |-> "Service.UpdateAssetDescription",
                                 assetID |-> loc[p].assetID,
                                 description |-> loc[p].description,
                                 err |-> ErrEmptyDescription, called |-> FALSE])
            /\ UNCHANGED <<mu, committed>>
       ELSE /\ left > 0
            /\ CanLock
            /\ mu' = Lock
            /\ pc' = [pc EXCEPT ![p] = "svc_update"]
            /\ event' = Record(NoEvent)
            /\ committed' = Store
            /\ UNCHANGED loc
    /\ UNCHANGED <<assets, heap, favourites, clock, left, appConfig>>

\* the store's UpdateAssetDescription for the arguments the service forwards:
\* lookup and `asset.Description = description`
ServiceUpdateAssetDescriptionRepo(p) ==
    /\ pc[p] = "svc_update"
    /\ LET id == loc[p].assetID
           description == loc[p].description
       IN IF id \notin DOMAIN assets
          THEN ReturnW(p, [op |-> "UpdateAssetDescription", assetID |-> id,
                           description |-> description, err |-> ErrNotFound,
                           pre |-> committed], assets, heap, favourites)
          ELSE /\ heap' = [heap EXCEPT ![assets[id]].Description = description]
               /\ pc' = [pc EXCEPT ![p] = "update_at"]
               /\ loc' = [loc EXCEPT ![p] = [op |-> "UpdateAssetDescription",
                              assetID |-> id, description |-> description,
                              asset |-> assets[id]]]
               /\ event' = Record(NoEvent)
               /\ UNCHANGED <<assets, favourites, mu, left, appConfig, committed>>
    /\ UNCHANGED clock

\* Goroutines that create assets and update descriptions through the service.
InitServiceUpdate == InitWith(Procs) /\ event = NoEvent /\ left = MaxLockWrites /\ appConfig = NilPtr

NextServiceUpdate ==
    \E p \in Procs :
        \/ CreateAssetLock(p)
        \/ CreateAsset(p)
        \/ ServiceUpdateAssetDescriptionCall(p)
        \/ ServiceUpdateAssetDescriptionCheck(p)
        \/ ServiceUpdateAssetDescriptionRepo(p)
        \/ UpdateAssetUpdatedAt(p)
SpecServiceUpdate == InitServiceUpdate /\ [][NextServiceUpdate]_vars

\* C31: empty descriptions are stopped at the service layer.  A call of
\* FavouriteService.UpdateAssetDescription with an empty description returns
\* an error without calling the store, so no asset's Description or UpdatedAt
\* changes (nothing in the store does, and the lock is not taken); a non-empty
\* description goes to the store's UpdateAssetDescription as it was given, and
\* is what the store writes into the asset.
C31_EmptyDescriptionStopped ==
    [][\A p \in Procs :
          /\ pc[p] = "svc_update_check" /\ pc'[p] # pc[p] =>
                IF loc[p].description = ""
                THEN /\ pc'[p] = "idle"
                     /\ event'.op = "Service.UpdateAssetDescription"
                     /\ event'.err = ErrEmptyDescription
                     /\ ~event'.called
                     /\ UNCHANGED <<assets, heap, favourites, mu>>
                ELSE /\ pc'[p] = "svc_update"
                     /\ loc'[p].assetID = loc[p].assetID
                     /\ loc'[p].description = loc[p].description
          /\ pc[p] = "svc_update" /\ pc'[p] # pc[p] =>
                /\ loc[p].description # ""
                /\ IF loc[p].assetID \in DOMAIN assets
                   THEN /\ heap'[assets[loc[p].assetID]].Description = loc[p].description
                        /\ loc'[p].description = loc[p].description
                   ELSE event'.err = ErrNotFound /\ event'.description = loc[p].description
          /\ pc[p] = "update_at" /\ pc'[p] # pc[p] =>
                /\ event'.err = ErrNil
                /\ event'.description = loc[p].description
                /\ event'.description # ""]_vars

\* an empty description has just been refused while an asset whose description
\* the service changed before is stored
C31_Witness ==
    /\ event.op = "Service.UpdateAssetDescription"
    /\ event.description = ""
    /\ event.assetID \in DOMAIN assets
    /\ heap[assets[event.assetID]].UpdatedAt > heap[assets[event.assetID]].CreatedAt

\* ---------------------------------------------------------------------------
\* ListFavourites over stores with orphans.  No call of the store leaves one,
\* so they are drawn as the test of Sanity makes them, written into
\* r.favourites directly: favourites of ListUser for assets of which only the
\* first n are in the catalog.
InitListOrphans ==
    \E n \in 0..MaxListed :
        \E ins \in [1..n -> ListInputs], favd \in SUBSET (1..MaxListed) :
            \E fsts \in [favd -> FavStamps] :
                InitListed(n, ins, [i \in 1..n |-> <<0, 0>>], favd, fsts)

NextListOrphans == ListFavouritesRLock(Lister) \/ ListFavouritesPaged(Lister)
SpecListOrphans == InitListOrphans /\ [][NextListOrphans]_vars

\* the favourites of a user whose asset is in the catalog
LiveFavs(u) == {f \in UserFavs(u) : f.AssetID \in DOMAIN assets}

\* C32: single orphan policy in ListFavourites.  A favourite of the user whose
\* asset is not in the catalog is skipped: it is on no page and is not counted
\* in total, the other favourites are listed as if it were not stored, and the
\* call returns no error.
C32_OrphansSkipped ==
    event.op = "ListFavourites"
    => LET q == event.query
           live == LiveFavs(event.userID)
           n == Cardinality(live)
       IN /\ event.err = ErrNil
          /\ event.total = n
          /\ Len(event.page) = Min(q.Limit, Max(0, n - q.Offset))
          /\ \A i \in DOMAIN event.page :
                /\ event.page[i].AssetID \in DOMAIN assets
                /\ [event.page[i] EXCEPT !.Asset = NilPtr] \in live
                /\ event.page[i].Asset = assets[event.page[i].AssetID]
          /\ \A i, j \in DOMAIN event.page : i # j => event.page[i] # event.page[j]

\* a user with an orphan and two sound favourites was listed: a page of two,
\* total two, of three stored
C32_Witness ==
    /\ event.op = "ListFavourites"
    /\ Cardinality(UserFavs(event.userID)) = 3
    /\ Cardinality(LiveFavs(event.userID)) = 2
    /\ event.total = 2
    /\ Len(event.page) = 2

\* ---------------------------------------------------------------------------
\* Goroutines that create assets and add favourites built by NewFavourite.
InitAdds == InitWith(Procs) /\ event = NoEvent /\ left = MaxWrites /\ appConfig = NilPtr

NextAdds ==
    \E p \in Procs :
        \/ CreateAssetLock(p)
        \/ ServiceCreateAsset(p)
        \/ AddFavouriteLock(p)
        \/ AddFavouriteNew(p)
SpecAdds == InitAdds /\ [][NextAdds]_vars

InitUsers == InitWith(Procs) /\ event = NoEvent /\ left = MaxLockWrites /\ appConfig = NilPtr

NextUsers ==
    \E p \in Procs :
        \/ CreateAssetLock(p)
        \/ ServiceCreateAsset(p)
        \/ AddFavouriteLock(p)
        \/ AddFavouriteNew(p)
        \/ RemoveFavouriteLock(p)
        \/ RemoveFavourite(p)
        \/ GetFavouriteRLock(p)
        \/ GetFavourite(p)
        \/ ListFavouritesRLock(p)
        \/ ListFavourites(p)
SpecUsers == InitUsers /\ [][NextUsers]_vars

\* the favourites of the users other than u are those of before the call
OthersKept(u, before) ==
    /\ \A v \in DOMAIN before : v # u => v \in DOMAIN favourites /\ favourites[v] = before[v]
    /\ \A v \in DOMAIN favourites : v # u => v \in DOMAIN before

\* fid is a favourite of another user than u, and not of u
OfOthersOnly(u, fid, fs) ==
    /\ \E v \in DOMAIN fs : v # u /\ fid \in DOMAIN fs[v]
    /\ ~(u \in DOMAIN fs /\ fid \in DOMAIN fs[u])

\* C34: user isolation.  AddFavourite and RemoveFavourite called for user u
\* leave the favourites of every other user as they were; GetFavourite and
\* ListFavourites called for u return favourites of u only, decided by what is
\* stored for u; RemoveFavourite(u, fid) and GetFavourite(u, fid) return
\* NotFound when fid is a favourite of another user only, and that favourite
\* stays stored.
C34_UserIsolation ==
    /\ event.op = "AddFavourite" =>
          OthersKept(event.favourite.UserID, event.pre.favourites)
    /\ event.op = "RemoveFavourite" =>
          /\ OthersKept(event.userID, event.pre.favourites)
          /\ OfOthersOnly(event.userID, event.favouriteID, event.pre.favourites) =>
                /\ event.err = ErrNotFound
                /\ favourites = event.pre.favourites
    /\ event.op = "GetFavourite" =>
          /\ event.err = ErrNil =>
                /\ event.val.UserID = event.userID
                /\ event.userID \in DOMAIN favourites
                /\ event.favouriteID \in DOMAIN favourites[event.userID]
                /\ [event.val EXCEPT !.Asset = NilPtr] =
                       favourites[event.userID][event.favouriteID]
          /\ OfOthersOnly(event.userID, event.favouriteID, favourites) =>
                event.err = ErrNotFound /\ event.val = NilPtr
    /\ event.op = "ListFavourites" =>
          /\ event.total = Cardinality(UserFavs(event.userID))
          /\ \A i \in DOMAIN event.page :
                /\ event.page[i].UserID = event.userID
                /\ [event.page[i] EXCEPT !.Asset = NilPtr] \in UserFavs(event.userID)
    /\ \A x \in StoredFavs(favourites) : favourites[x[1]][x[2]].UserID = x[1]

\* RemoveFavourite(u, fid) has just been refused, fid being a favourite of
\* another user, which is still stored
C34_Witness ==
    /\ event.op = "RemoveFavourite"
    /\ event.err = ErrNotFound
    /\ OfOthersOnly(event.userID, event.favouriteID, event.pre.favourites)
    /\ OfOthersOnly(event.userID, event.favouriteID, favourites)

\* ---------------------------------------------------------------------------
\* Concurrent duplicate adds: goroutines that each call
\* FavouriteService.AddFavourite once, all for the same user and the same
\* asset, which is in the catalog; nothing else runs.
Adders == {"h1", "h2", "h3"}
SameUser == "u1"
SameAsset == "a1"

InitDuplicates ==
    /\ assets = [a \in {SameAsset} |-> 1]
    /\ heap = [x \in Addrs |-> IF x = 1 THEN NewAsset(SameAsset, "chart", "d1", 0)
                               ELSE NoObj]
    /\ favourites = EmptyMap
    /\ mu = MuFree
    /\ clock = 0
    /\ pc = [p \in Adders |-> "idle"]
    /\ loc = [p \in Adders |-> NoLocal]
    /\ left = Cardinality(Adders) /\ appConfig = NilPtr
    /\ event = NoEvent
    /\ committed = StoreOf(assets, heap, favourites)

NextDuplicates ==
    \E p \in Adders :
        \/ ServiceAddFavouriteCallOf(p, {SameUser}, {SameAsset})
        \/ ServiceAddFavouriteGetAsset(p)
        \/ ServiceAddFavouriteIsFavouriteRLock(p)
        \/ ServiceAddFavouriteIsFavourite(p)
        \/ ServiceAddFavouriteLock(p)
        \/ ServiceAddFavouriteRepo(p)
        \/ ServiceAddFavouriteReturn(p)
SpecDuplicates == InitDuplicates /\ [][NextDuplicates]_vars

\* the stored favourites of SameUser for SameAsset
SameFavs ==
    {x \in StoredFavs(favourites) :
        x[1] = SameUser /\ favourites[x[1]][x[2]].AssetID = SameAsset}

\* calls that have stored their favourite: each takes one of the writes left
Succeeded == Cardinality(Adders) - left

\* C35: concurrent duplicate adds.  Of several concurrent calls of
\* FavouriteService.AddFavourite(u, a) for the same user and the same asset of
\* the catalog, never more than one stores a favourite; every call that fails
\* fails with AlreadyExists and returns no favourite; when all have returned
\* exactly one has succeeded and exactly one favourite of (u, a) is stored.
C35_ConcurrentDuplicateAdds ==
    /\ Succeeded <= 1
    /\ Cardinality(SameFavs) = Succeeded
    /\ event.op = "Service.AddFavourite" =>
          /\ event.err \in {ErrNil, ErrAlreadyExists}
          /\ event.err = ErrAlreadyExists => event.val = NoObj
          /\ event.err = ErrNil => event.val.UserID = SameUser /\ event.val.AssetID = SameAsset
    /\ (\A p \in Adders : pc[p] = "done") =>
          /\ Succeeded = 1
          /\ Cardinality(SameFavs) = 1
          /\ Cardinality(StoredFavs(favourites)) = 1

\* all calls have returned, the last of them refused by the store's own
\* AddFavourite after it had passed the service's checks
C35_Witness ==
    /\ \A p \in Adders : pc[p] = "done"
    /\ event.op = "Service.AddFavourite"
    /\ event.err = ErrAlreadyExists
    /\ event.called
    /\ Cardinality(SameFavs) = 1

\* ---------------------------------------------------------------------------
\* AddFavourite racing DeleteAsset: the goroutines of Adders each call
\* FavouriteService.AddFavourite once, for any user and asset ID, while one
\* more goroutine calls DeleteAsset once; the catalog starts with SameAsset.
Deleter == "k1"

InitRace ==
    /\ assets = [a \in {SameAsset} |-> 1]
    /\ heap = [x \in Addrs |-> IF x = 1 THEN NewAsset(SameAsset, "chart", "d1", 0)
                               ELSE NoObj]
    /\ favourites = EmptyMap
    /\ mu = MuFree
    /\ clock = 0
    /\ pc = [p \in Adders \cup {Deleter} |-> "idle"]
    /\ loc = [p \in Adders \cup {Deleter} |-> NoLocal]
    /\ left = Cardinality(Adders) + 1 /\ appConfig = NilPtr
    /\ event = NoEvent
    /\ committed = StoreOf(assets, heap, favourites)

NextRace ==
    \/ DeleteAssetLock(Deleter)
    \/ DeleteAsset(Deleter)
    \/ DeleteAssetCascade(Deleter)
    \/ \E p \in Adders :
        \/ ServiceAddFavouriteCall(p)
        \/ ServiceAddFavouriteGetAsset(p)
        \/ ServiceAddFavouriteIsFavouriteRLock(p)
        \/ ServiceAddFavouriteIsFavourite(p)
        \/ ServiceAddFavouriteLock(p)
        \/ ServiceAddFavouriteRepo(p)
        \/ ServiceAddFavouriteReturn(p)
SpecRace == InitRace /\ [][NextRace]_vars

\* C36: AddFavourite racing DeleteAsset.  Under every interleaving of
\* FavouriteService.AddFavourite(u, a) with DeleteAsset(a), once the calls
\* have returned no favourite references a deleted asset; the store's
\* AddFavourite reached after the asset was deleted, the service's checks
\* having passed before, fails with NotFound; and the service reports success
\* only for a favourite that was stored when the store's AddFavourite
\* returned.
C36_AddRacingDelete ==
    /\ []((\A p \in Adders \cup {Deleter} : pc[p] = "done") =>
             \A x \in StoredFavs(favourites) :
                 favourites[x[1]][x[2]].AssetID \in DOMAIN assets)
    /\ [][\A p \in Adders :
             /\ (pc[p] = "svc_addfav" /\ pc'[p] # pc[p] /\ loc[p].assetID \notin DOMAIN assets) =>
                   /\ pc'[p] = "done"
                   /\ event'.op = "Service.AddFavourite"
                   /\ event'.err = ErrNotFound
                   /\ event'.val = NoObj
                   /\ UNCHANGED favourites
             /\ (pc[p] = "svc_addfav" /\ pc'[p] = "svc_attach") =>
                   /\ loc[p].userID \in DOMAIN favourites'
                   /\ loc[p].fav.ID \in DOMAIN favourites'[loc[p].userID]
                   /\ favourites'[loc[p].userID][loc[p].fav.ID] = loc[p].fav
             /\ (pc[p] # "done" /\ pc'[p] = "done" /\ event'.err = ErrNil) =>
                   pc[p] = "svc_attach"]_vars

\* everything has returned, the asset is deleted, and the last to return was
\* an add that had passed the service's checks and was refused by the store
C36_Witness ==
    /\ \A p \in Adders \cup {Deleter} : pc[p] = "done"
    /\ SameAsset \notin DOMAIN assets
    /\ event.op = "Service.AddFavourite"
    /\ event.assetID = SameAsset
    /\ event.err = ErrNotFound
    /\ event.called

\* ---------------------------------------------------------------------------
\* A client that pages through a user's favourites: ListFavourites with
\* Offset 0, L, 2L, ... until total is covered, then the first query once
\* more; the store does not change meanwhile.
WalkLimits == {1, 2}
WalkQueries ==
    {NewPageQuery(l, 0, s, d) : l \in WalkLimits, s \in FavSortKeys, d \in Orders}

\* the first call, up to r.mu.RLock()
WalkCall(p) ==
    /\ pc[p] = "idle"
    /\ CanRLock
    /\ \E query \in WalkQueries :
        loc' = [loc EXCEPT ![p] = [op |-> "Walk", query |-> query, offset |-> 0,
                                   pages |-> <<>>, repeating |-> FALSE]]
    /\ mu' = RLock
    /\ pc' = [pc EXCEPT ![p] = "walk_list"]
    /\ event' = Record(NoEvent)
    /\ UNCHANGED <<assets, heap, favourites, clock, left, appConfig, committed>>

\* r.mu.RLock() of the next call
WalkRLock(p) ==
    /\ pc[p] = "walk_next"
    /\ CanRLock
    /\ mu' = RLock
    /\ pc' = [pc EXCEPT ![p] = "walk_list"]
    /\ event' = Record(NoEvent)
    /\ UNCHANGED <<assets, heap, favourites, clock, loc, left, appConfig, committed>>

\* body of ListFavourites for the page the client is at
WalkList(p) ==
    /\ pc[p] = "walk_list"
    /\ mu' = RUnlock
    /\ \E res \in ListFavouritesResults(ListUser,
                      [loc[p].query EXCEPT !.Offset = loc[p].offset]) :
        IF loc[p].repeating
        THEN /\ pc' = [pc EXCEPT ![p] = Rest(p)]
             /\ loc' = [loc EXCEPT ![p] = NoLocal]
             /\ event' = Record([op |-> "Walk", userID |-> ListUser,
                                  query |-> loc[p].query, pages |-> loc[p].pages,
                                  again |-> res.page, total |-> res.total])
        ELSE LET next == loc[p].offset + loc[p].query.Limit IN
             /\ pc' = [pc EXCEPT ![p] = "walk_next"]
             /\ loc' = [loc EXCEPT ![p] =
                   [op |-> "Walk", query |-> loc[p].query,
                    offset |-> IF next >= res.total THEN 0 ELSE next,
                    pages |-> Append(loc[p].pages, res.page),
                    repeating |-> next >= res.total]]
             /\ event' = Record(NoEvent)
    /\ UNCHANGED <<assets, heap, favourites, clock, left, appConfig, committed>>

NextWalk == WalkCall(Lister) \/ WalkRLock(Lister) \/ WalkList(Lister)
SpecWalk == InitListFavs /\ [][NextWalk]_vars

\* the places of the pages where the favourite with this ID is
PlacesOf(pages, id) ==
    {pl \in (DOMAIN pages) \X (1..MaxListed + 1) :
        pl[2] \in DOMAIN pages[pl[1]] /\ pages[pl[1]][pl[2]].ID = id}

\* C37: pages partition the result.  On an unchanged store, for a fixed user,
\* SortBy, Order and Limit L, the pages ListFavourites returns for Offsets
\* 0, L, 2L, ... hold every favourite of the user exactly once, and the same
\* query asked again returns the same sequence, ties on the sort key included.
C37_PagesPartition ==
    event.op = "Walk"
    => /\ \A f \in UserFavs(event.userID) :
              Cardinality(PlacesOf(event.pages, f.ID)) = 1
       /\ event.again = event.pages[1]

\* C38 (SpecWrites): DeleteAsset touches only its target.  A successful
\* DeleteAsset(A) leaves every other asset record and every favourite whose
\* AssetID is not A as they were before the call, and adds nothing; a
\* DeleteAsset that returns NotFound leaves the whole store unchanged.
C38_DeleteAssetFrame ==
    event.op = "DeleteAsset" =>
        LET A == event.assetID
            was == event.pre
        IN IF event.err = ErrNil
           THEN /\ A \in DOMAIN was.assets
                /\ DOMAIN Store.assets = DOMAIN was.assets \ {A}
                /\ \A a \in DOMAIN Store.assets : Store.assets[a] = was.assets[a]
                /\ DOMAIN favourites = DOMAIN was.favourites
                /\ \A x \in StoredFavs(was.favourites) :
                      was.favourites[x[1]][x[2]].AssetID # A =>
                          /\ x \in StoredFavs(favourites)
                          /\ favourites[x[1]][x[2]] = was.favourites[x[1]][x[2]]
                /\ StoredFavs(favourites) \subseteq StoredFavs(was.favourites)
           ELSE /\ event.err = ErrNotFound
                /\ A \notin DOMAIN was.assets
                /\ Store = was

\* an asset was deleted while another asset and a favourite of that other
\* asset were stored, and they still are
C38_Witness ==
    /\ event.op = "DeleteAsset"
    /\ event.err = ErrNil
    /\ \E x \in StoredFavs(event.pre.favourites) :
          /\ event.pre.favourites[x[1]][x[2]].AssetID # event.assetID
          /\ x \in StoredFavs(favourites)
    /\ DOMAIN assets # {}

\* ---------------------------------------------------------------------------
\* Package config.  Get() tests and sets the package variable appConfig with
\* no lock and no sync.Once: the test, load(), the assignment and the read of
\* the return statement are steps that other goroutines' steps can separate.
\* The Config objects load() allocates are kept in heap.
Getters == {"c1", "c2", "c3"}

\* load(): a new Config from the environment, here the defaults
LoadedConfig == [MaxPageItems |-> MaxPageItems, StorageType |-> "memory"]

\* the Config objects allocated so far, one for each load() that has run
Loaded == {x \in Addrs : heap[x] = LoadedConfig}

\* `if appConfig == nil`
GetTest(p) ==
    /\ pc[p] = "idle"
    /\ pc' = [pc EXCEPT ![p] = IF appConfig = NilPtr THEN "cfg_load" ELSE "cfg_return"]
    /\ event' = Record(NoEvent)
    /\ UNCHANGED <<assets, heap, favourites, mu, clock, loc, left, committed, appConfig>>

\* load(), its result not yet assigned
GetLoad(p) ==
    /\ pc[p] = "cfg_load"
    /\ FreeAddrs # {}
    /\ heap' = [heap EXCEPT ![NextAddr] = LoadedConfig]
    /\ loc' = [loc EXCEPT ![p] = [op |-> "config.Get", cfg |-> NextAddr]]
    /\ pc' = [pc EXCEPT ![p] = "cfg_store"]
    /\ event' = Record(NoEvent)
    /\ UNCHANGED <<assets, favourites, mu, clock, left, committed, appConfig>>

\* `appConfig = load()`: the assignment
GetStore(p) ==
    /\ pc[p] = "cfg_store"
    /\ appConfig' = loc[p].cfg
    /\ pc' = [pc EXCEPT ![p] = "cfg_return"]
    /\ event' = Record(NoEvent)
    /\ UNCHANGED <<assets, heap, favourites, mu, clock, loc, left, committed>>

\* `return appConfig`; the goroutine keeps what it got
GetReturn(p) ==
    /\ pc[p] = "cfg_return"
    /\ pc' = [pc EXCEPT ![p] = Rest(p)]
    /\ loc' = [loc EXCEPT ![p] = [op |-> "config.Get", got |-> appConfig]]
    /\ event' = Record([op |-> "config.Get", val |-> appConfig])
    /\ UNCHANGED <<assets, heap, favourites, mu, clock, left, committed, appConfig>>

\* Goroutines that each make one call of config.Get() in a process that has
\* made none before.
InitConfig == InitWith(Getters) /\ event = NoEvent /\ left = 0 /\ appConfig = NilPtr

NextConfig ==
    \E p \in Getters : GetTest(p) \/ GetLoad(p) \/ GetStore(p) \/ GetReturn(p)
SpecConfig == InitConfig /\ [][NextConfig]_vars

\* C39: configuration singleton.  Every call of config.Get(), first calls made
\* concurrently from several goroutines included, returns the same Config
\* instance, and load() runs at most once in the process.
C39_ConfigSingleton ==
    /\ Cardinality(Loaded) <= 1
    /\ \A p, q \in Getters :
          (pc[p] = "done" /\ pc[q] = "done") => loc[p].got = loc[q].got
    /\ \A p \in Getters : pc[p] = "done" => loc[p].got # NilPtr
====
